---- MODULE Spec2Model ----
(***************************************************************************)
(* The analysis job pipeline of CodeGuardian AI: AnalysisService (job      *)
(* store, startAnalysis, getJobStatus, updateJobStatus), AnalysisProcessor *)
(* (process, fetchRepositoryFiles, analyzeFiles) and LLMService (the       *)
(* confidence filter).                                                     *)
(*                                                                         *)
(* One step of the model is one synchronous stretch of the code between    *)
(* two awaits, except that process() is cut at every updateJobStatus call  *)
(* so that each write to the job record is a step of its own.              *)
(***************************************************************************)
EXTENDS Integers, Sequences, FiniteSets, TLC

VARIABLES
    jobStore,            \* analysis.service.ts: const jobStore = new Map<string, AnalysisJob>()
    analysisQueue,       \* AnalysisService.analysisQueue: Undefined, or Some(the payloads waiting in the queue)
    proc,                \* per job: where its startAnalysis call / pipeline stands, and the pipeline's locals
    returned,            \* job ids that startAnalysis has returned to its caller
    reply,               \* what the most recent call of the service answered its caller
    now,                 \* Date.now(), in clock ticks
    llmEnabled,          \* LLMService.enabled && openai !== null
    quotaExceeded,       \* LLMService.quotaExceeded
    lastQuotaErrorTime,  \* LLMService.lastQuotaErrorTime
    filterCall           \* the call of the confidence filter in progress: its validation requests

vars == <<jobStore, analysisQueue, proc, returned, reply, now,
          llmEnabled, quotaExceeded, lastQuotaErrorTime, filterCall>>

---------------------------------------------------------------------------
(* Bounds of the model *)

MaxJobs == 1
MaxTime == 1

JobIds == 1..MaxJobs
\* the ids a caller may ask about: those of the jobs, and one that no job has
QueryIds == JobIds \cup {MaxJobs + 1}
Users == {1}
Owners == {"octo"}
Repos == {"hello"}

---------------------------------------------------------------------------
(* Optional fields (result?, error?, startedAt?, completedAt?): <<>> is    *)
(* undefined, <<v>> is the value v.                                        *)

Undefined == <<>>
Some(v) == <<v>>
Has(x) == x # <<>>
Val(x) == x[1]

Min(a, b) == IF a <= b THEN a ELSE b
Max(a, b) == IF a >= b THEN a ELSE b

---------------------------------------------------------------------------
(* Findings and fetched files.  A fetched file of the model carries its    *)
(* path and language and what the line-oriented detector computes on its   *)
(* content: the line count, the complexity and the candidate findings.     *)

SecA == [file |-> "src/a.ts", line |-> 3, severity |-> "high",
         message |-> "Hardcoded password detected",
         recommendation |-> "Use environment variables",
         codeSnippet |-> "const password = ..."]
BpA == [file |-> "src/a.ts", line |-> 7,
        message |-> "Console.log statement found",
        recommendation |-> "Use a logger",
        codeSnippet |-> "console.log(x)"]

FileA == [path |-> "src/a.ts", language |-> "TypeScript", lines |-> 12,
          complexity |-> 3, security |-> <<SecA>>, bestPractices |-> <<BpA>>]

\* What fetchRepositoryFiles can return: the files whose content was obtained.
FetchedFiles == {<<>>, <<FileA>>}

\* A manifest file: the detector finds nothing in it.
FileB == [path |-> "package.json", language |-> "JSON", lines |-> 20,
          complexity |-> 0, security |-> <<>>, bestPractices |-> <<>>]

\* filesToAnalyze: the config files of the tree, then its code files; empty
\* when no blob of the tree is a code file or a config file.
SelectedFiles == {<<>>, <<FileB, FileA>>}

\* How the request for one file's content can end: an OK response with
\* base64 content, an OK response with another encoding, a response that is
\* not OK, or an exception (fetch rejects, or the body is not JSON).
ContentResponses == {"ok", "otherEncoding", "notOk", "throws"}

---------------------------------------------------------------------------
(* LLMService: the confidence filter.  Confidence is kept in tenths        *)
(* (6 is 0.6).  An absent improved value is "" (the code tests it with ||, *)
(* which treats undefined and "" alike).                                   *)

ConfidenceThreshold == 6
AnalyzeLimit == 50
BatchSize == 5

NoImprovement(valid, conf) ==
    [isValidIssue |-> valid, confidence |-> conf, improvedMessage |-> "",
     improvedRecommendation |-> "", severity |-> ""]

\* How one chat.completions.create call can end: with a JSON object ("json"),
\* with no content ("empty"), with a 429 / quota error ("quota"), with another
\* error or unparsable content ("error"), or with the JSON text null ("null").
Outcomes ==
    { [kind |-> "json", result |-> NoImprovement(TRUE, 8)],
      [kind |-> "json", result |-> NoImprovement(FALSE, 9)],
      [kind |-> "error", result |-> NoImprovement(TRUE, 0)],
      [kind |-> "quota", result |-> NoImprovement(TRUE, 0)],
      [kind |-> "null", result |-> NoImprovement(TRUE, 0)] }

\* validateSecurityIssue / validateBestPracticeIssue: the LLMAnalysisResult
\* the call yields; it never throws.  (On "null" it yields null, and the
\* caller's read of result.isValidIssue throws: see FilterThrows.)
validateIssue(outcome) ==
    CASE outcome.kind = "json"  -> outcome.result
      [] outcome.kind = "empty" -> NoImprovement(TRUE, 5)
      [] outcome.kind = "quota" -> NoImprovement(TRUE, 10)
      [] outcome.kind = "error" -> NoImprovement(TRUE, 5)

\* result.isValidIssue && result.confidence > 0.6
Keeps(result) == result.isValidIssue /\ result.confidence > ConfidenceThreshold

ImproveSecurity(issue, result) ==
    [issue EXCEPT
       !.message = IF result.improvedMessage # "" THEN result.improvedMessage ELSE @,
       !.recommendation = IF result.improvedRecommendation # ""
                          THEN result.improvedRecommendation ELSE @,
       !.severity = IF result.severity # "" THEN result.severity ELSE @]

ImproveBestPractice(issue, result) ==
    [issue EXCEPT
       !.message = IF result.improvedMessage # "" THEN result.improvedMessage ELSE @,
       !.recommendation = IF result.improvedRecommendation # ""
                          THEN result.improvedRecommendation ELSE @]

RECURSIVE ValidatedSecurity(_, _, _)
ValidatedSecurity(issues, outcomes, i) ==
    IF i > Len(issues) THEN <<>>
    ELSE LET result == validateIssue(outcomes[i])
         IN  (IF Keeps(result) THEN <<ImproveSecurity(issues[i], result)>> ELSE <<>>)
             \o ValidatedSecurity(issues, outcomes, i + 1)

RECURSIVE ValidatedBestPractices(_, _, _)
ValidatedBestPractices(issues, outcomes, i) ==
    IF i > Len(issues) THEN <<>>
    ELSE LET result == validateIssue(outcomes[i])
         IN  (IF Keeps(result) THEN <<ImproveBestPractice(issues[i], result)>> ELSE <<>>)
             \o ValidatedBestPractices(issues, outcomes, i + 1)

\* The results.forEach of some batch throws (a null result), which ends the
\* loop over the batches in the catch block of the filter.
FilterThrows(n, outcomes) == \E i \in 1..n : outcomes[i].kind = "null"

\* The last index whose validation call is issued: the batches run one after
\* the other, and the batch whose results throw is the last one.
LastIssued(n, outcomes) ==
    IF ~FilterThrows(n, outcomes) THEN n
    ELSE LET first == CHOOSE i \in 1..n :
                          /\ outcomes[i].kind = "null"
                          /\ \A k \in 1..(i - 1) : outcomes[k].kind # "null"
         IN  Min(n, (((first - 1) \div BatchSize) + 1) * BatchSize)

\* a filter that appends the whole input instead of the remainder
MutAnalyzeSecurityIssues(enabled, issues, outcomes) ==
    IF ~enabled \/ issues = <<>> THEN issues
    ELSE LET n == Min(AnalyzeLimit, Len(issues))
         IN  IF FilterThrows(n, outcomes) THEN issues
             ELSE ValidatedSecurity(SubSeq(issues, 1, n), outcomes, 1) \o issues

\* analyzeSecurityIssues(issues, fileContent); outcomes[i] is how the
\* validation call for issues[i] ends.
analyzeSecurityIssues(enabled, issues, outcomes) ==
    IF ~enabled \/ issues = <<>> THEN issues
    ELSE LET n == Min(AnalyzeLimit, Len(issues))
         IN  IF FilterThrows(n, outcomes) THEN issues
             ELSE ValidatedSecurity(SubSeq(issues, 1, n), outcomes, 1)
                  \o SubSeq(issues, n + 1, Len(issues))

\* a filter without the limit: every finding goes to the service
MutAnalyzeBestPractices(enabled, issues, outcomes) ==
    IF ~enabled \/ issues = <<>> THEN issues
    ELSE IF FilterThrows(Len(issues), outcomes) THEN issues
    ELSE ValidatedBestPractices(issues, outcomes, 1)

\* analyzeBestPractices(issues, fileContent)
analyzeBestPractices(enabled, issues, outcomes) ==
    IF ~enabled \/ issues = <<>> THEN issues
    ELSE LET n == Min(AnalyzeLimit, Len(issues))
         IN  IF FilterThrows(n, outcomes) THEN issues
             ELSE ValidatedBestPractices(SubSeq(issues, 1, n), outcomes, 1)
                  \o SubSeq(issues, n + 1, Len(issues))

\* Whether a call of the filter on these issues meets a 429 / quota error.
SeesQuotaError(enabled, issues, outcomes) ==
    /\ enabled
    /\ \E i \in 1..LastIssued(Min(AnalyzeLimit, Len(issues)), outcomes) :
          outcomes[i].kind = "quota"

---------------------------------------------------------------------------
(* AnalysisProcessor.analyzeFiles *)

RECURSIVE Flatten(_)
Flatten(seqs) == IF seqs = <<>> THEN <<>> ELSE Head(seqs) \o Flatten(Tail(seqs))

RECURSIVE SumOf(_, _)
SumOf(files, field) ==
    IF files = <<>> THEN 0 ELSE Head(files)[field] + SumOf(Tail(files), field)

RECURSIVE MaxOf(_, _)
MaxOf(files, field) ==
    IF files = <<>> THEN 0 ELSE Max(Head(files)[field], MaxOf(Tail(files), field))

\* securityIssues / bestPracticeIssues after the detection loop over the files
Detected(files, field) == Flatten([k \in 1..Len(files) |-> files[k][field]])

\* languages[file.language] = (languages[file.language] || 0) + lines
Languages(files) ==
    [l \in {files[k].language : k \in 1..Len(files)} |->
        SumOf(SelectSeq(files, LAMBDA f : f.language = l), "lines")]

\* The keys of securityByFile / bestPracticeByFile, in insertion order.
RECURSIVE FileKeys(_, _)
FileKeys(issues, seen) ==
    IF issues = <<>> THEN <<>>
    ELSE IF Head(issues).file \in seen THEN FileKeys(Tail(issues), seen)
    ELSE <<Head(issues).file>> \o FileKeys(Tail(issues), seen \cup {Head(issues).file})

\* The indices, in order, of the issues of one file.
RECURSIVE IndicesOf(_, _, _)
IndicesOf(issues, path, i) ==
    IF i > Len(issues) THEN <<>>
    ELSE (IF issues[i].file = path THEN <<i>> ELSE <<>>) \o IndicesOf(issues, path, i + 1)

Pick(seq, idx) == [k \in 1..Len(idx) |-> seq[idx[k]]]

\* Promise.all over one filter call per file, then .flat()
FilterSecurityByFile(enabled, issues, outcomes) ==
    LET keys == FileKeys(issues, {})
    IN  Flatten([k \in 1..Len(keys) |->
            LET idx == IndicesOf(issues, keys[k], 1)
            IN  analyzeSecurityIssues(enabled, Pick(issues, idx), Pick(outcomes, idx))])

FilterBestPracticesByFile(enabled, issues, outcomes) ==
    LET keys == FileKeys(issues, {})
    IN  Flatten([k \in 1..Len(keys) |->
            LET idx == IndicesOf(issues, keys[k], 1)
            IN  analyzeBestPractices(enabled, Pick(issues, idx), Pick(outcomes, idx))])

AnyQuotaError(enabled, issues, outcomes) ==
    \E path \in {issues[i].file : i \in 1..Len(issues)} :
        LET idx == IndicesOf(issues, path, 1)
        IN  SeesQuotaError(enabled, Pick(issues, idx), Pick(outcomes, idx))

\* Math.round(x) for the rational x = num / den, den > 0
Round(num, den) == (2 * num + den) \div (2 * den)

\* calculateQualityScore; avgComplexity is totalComplexity / nFiles (0 when no file)
calculateQualityScore(securityIssues, bestPracticeIssues, totalComplexity, nFiles) ==
    LET den == IF nFiles > 0 THEN nFiles ELSE 1
        base == (100 - securityIssues * 5 - bestPracticeIssues * 1) * den
        num == IF totalComplexity > 10 * den
               THEN base - (totalComplexity - 10 * den) * 2
               ELSE base
    IN  Max(0, Min(100, Round(num, den)))

MutIssueCount(filteredSecurity, filteredBestPractices, securityIssues, bestPracticeIssues) ==
    Len(securityIssues) + Len(bestPracticeIssues)

\* codeQuality.issues: filteredSecurityIssues.length + filteredBestPracticeIssues.length
IssueCount(filteredSecurity, filteredBestPractices, securityIssues, bestPracticeIssues) ==
    Len(filteredSecurity) + Len(filteredBestPractices)

\* analyzeFiles(files, owner, repo): the AnalysisResult.  secOutcomes[i] and
\* bpOutcomes[i] are how the validation calls for the i-th detected security
\* and best-practice finding end.  The average complexity is in hundredths.
analyzeFiles(files, enabled, secOutcomes, bpOutcomes) ==
    LET securityIssues == Detected(files, "security")
        bestPracticeIssues == Detected(files, "bestPractices")
        totalComplexity == SumOf(files, "complexity")
        filteredSecurity ==
            IF enabled THEN FilterSecurityByFile(enabled, securityIssues, secOutcomes)
            ELSE securityIssues
        filteredBestPractices ==
            IF enabled
            THEN FilterBestPracticesByFile(enabled, bestPracticeIssues, bpOutcomes)
            ELSE bestPracticeIssues
    IN  \* (summary.techStack is left out: no property here reads it)
        [summary |-> [totalFiles |-> Len(files),
                      totalLines |-> SumOf(files, "lines"),
                      languages |-> Languages(files)],
         metrics |-> [complexity |->
                          [average |-> IF Len(files) > 0
                                       THEN Round(totalComplexity * 100, Len(files))
                                       ELSE 0,
                           max |-> MaxOf(files, "complexity")],
                      codeQuality |->
                          [score |-> calculateQualityScore(Len(filteredSecurity),
                                         Len(filteredBestPractices),
                                         totalComplexity, Len(files)),
                           issues |-> IssueCount(filteredSecurity, filteredBestPractices,
                                                 securityIssues, bestPracticeIssues)]],
         findings |-> [security |-> filteredSecurity,
                       bestPractices |-> filteredBestPractices]]

---------------------------------------------------------------------------
(* Exceptions.  Everything the pipeline throws is an Error instance.       *)

Error(message) == [instanceOfError |-> TRUE, message |-> message]

\* fetchRepositoryFiles: the repository or the tree response is not ok, or
\* fetch itself rejects.
FetchErrors ==
    { Error("Failed to fetch repository: " \o "Unauthorized"),
      Error("Failed to fetch repository tree: " \o "Not Found") }

\* An unexpected exception while the files are analysed.
DetectionErrors == { Error("Maximum call stack size exceeded") }

MutErrorMessage(error) == "Unknown error"

\* error instanceof Error ? error.message : 'Unknown error'
ErrorMessage(error) ==
    IF error.instanceOfError THEN error.message ELSE "Unknown error"

---------------------------------------------------------------------------
(* AnalysisService: the job store *)

NewJob(jobId, user, owner, repo) ==
    [id |-> jobId,
     userId |-> user,
     repository |-> [owner |-> owner, repo |-> repo, fullName |-> owner \o "/" \o repo],
     status |-> "pending",
     progress |-> 0,
     result |-> Undefined,
     error |-> Undefined,
     createdAt |-> now,
     startedAt |-> Undefined,
     completedAt |-> Undefined]

\* jobStore.set(jobId, job)
StoreSet(store, jobId, job) == (jobId :> job) @@ store

\* Object.assign(job, updates)
Assign(job, updates) ==
    [f \in DOMAIN job |-> IF f \in DOMAIN updates THEN updates[f] ELSE job[f]]

\* an update that reaches every record of the store
MutUpdateJobStatus(store, jobId, updates) ==
    [j \in DOMAIN store |-> Assign(store[j], updates)]

\* updateJobStatus(jobId, updates): the job store after the call
updateJobStatus(store, jobId, updates) ==
    IF jobId \in DOMAIN store
    THEN StoreSet(store, jobId, Assign(store[jobId], updates))
    ELSE store

MutGetJobStatus(store, jobId) ==
    [outcome |-> "ok",
     job |-> IF jobId \in DOMAIN store THEN Some(store[jobId]) ELSE Undefined]

\* getJobStatus(jobId): the job, or NotFoundException
getJobStatus(store, jobId) ==
    IF jobId \notin DOMAIN store
    THEN [outcome |-> "NotFound", job |-> Undefined]
    ELSE [outcome |-> "ok", job |-> Some(store[jobId])]

---------------------------------------------------------------------------
(* State of one startAnalysis call and of the pipeline it dispatches.      *)
(* pc:  adding     queued strategy, awaiting analysisQueue.add             *)
(*      rejected   analysisQueue.add rejected; startAnalysis threw         *)
(*      queued     the payload is in the queue                             *)
(*      scheduled  the setImmediate callback is registered                 *)
(*      fetching   process awaits fetchRepositoryFiles                     *)
(*      contents   fetchRepositoryFiles is in its loop over filesToAnalyze *)
(*      analyzing  process awaits analyzeFiles                             *)
(*      completing process is between its last two updateJobStatus calls   *)
(*      rethrown   process has thrown out of its catch block               *)
(*      hung       process awaits a call that never settles                *)
(*      done       nothing is left to run for this job                     *)

NewProc(strategy, pc) ==
    [strategy |-> strategy, pc |-> pc, files |-> <<>>,
     analysisResult |-> Undefined, error |-> Undefined,
     selected |-> <<>>,    \* filesToAnalyze of fetchRepositoryFiles
     responses |-> <<>>,   \* how the content requests made so far ended
     updates |-> <<>>]     \* the updateJobStatus calls made for the job so far

\* An update as the list of calls keeps it: the Date values are left out,
\* two runs of the same pipeline do not read the same clock.
Logged(updates) ==
    [f \in DOMAIN updates |->
        IF f \in {"startedAt", "completedAt"} THEN "Date" ELSE updates[f]]

Payload(jobId, owner, repo) ==
    [jobId |-> jobId, owner |-> owner, repo |-> repo, fullName |-> owner \o "/" \o repo]

NoReply == [op |-> "none", jobId |-> 0, outcome |-> "", job |-> Undefined]

\* No call of the confidence filter is in progress.
NoCall == [op |-> "none"]

Init ==
    /\ jobStore = <<>>
    /\ analysisQueue = Undefined
    /\ proc = <<>>
    /\ returned = {}
    /\ reply = NoReply
    /\ now = 0
    /\ llmEnabled \in BOOLEAN
    /\ quotaExceeded = FALSE
    /\ lastQuotaErrorTime = 0
    /\ filterCall = NoCall

\* The wall clock advances.
Tick ==
    /\ now < MaxTime
    /\ now' = now + 1
    /\ reply' = NoReply
    /\ UNCHANGED <<jobStore, analysisQueue, proc, returned, llmEnabled, filterCall,
                   quotaExceeded, lastQuotaErrorTime>>

\* setQueue(queue)
SetQueue ==
    /\ ~Has(analysisQueue)
    /\ analysisQueue' = Some(<<>>)
    /\ reply' = NoReply
    /\ UNCHANGED <<jobStore, proc, returned, now, llmEnabled, filterCall,
                   quotaExceeded, lastQuotaErrorTime>>

\* `analysis-${Date.now()}-${Math.random()...}`.  Two calls get the same id
\* only when they read the same clock value and draw the same random suffix.
\* The specifications of the pipeline follow jobs whose ids differ: there
\* every call gets an id that no job has yet.  The ids as startAnalysis
\* draws them are in the specification of the controller (see JobId).
NextJobId == Cardinality(DOMAIN jobStore) + 1

\* startAnalysis calling the pipeline directly instead of through setImmediate
MutStartAnalysis(user, owner, repo, jobId) ==
    /\ Cardinality(DOMAIN jobStore) < MaxJobs
    /\ IF Has(analysisQueue)
       THEN /\ jobStore' = StoreSet(jobStore, jobId, NewJob(jobId, user, owner, repo))
            /\ proc' = StoreSet(proc, jobId, NewProc("queued", "adding"))
            /\ reply' = NoReply
            /\ UNCHANGED returned
       ELSE /\ jobStore' = updateJobStatus(
                   StoreSet(jobStore, jobId, NewJob(jobId, user, owner, repo)), jobId,
                   [status |-> "processing", progress |-> 10, startedAt |-> Some(now)])
            /\ proc' = StoreSet(proc, jobId, NewProc("immediate", "fetching"))
            /\ returned' = returned \cup {jobId}
            /\ reply' = [op |-> "startAnalysis", jobId |-> jobId,
                         outcome |-> "ok", job |-> Undefined]
    /\ UNCHANGED <<analysisQueue, now, llmEnabled, filterCall, quotaExceeded, lastQuotaErrorTime>>

\* startAnalysis(user, owner, repo), up to its return or its first await
StartAnalysis(user, owner, repo, jobId) ==
    /\ Cardinality(DOMAIN jobStore) < MaxJobs
    /\ jobStore' = StoreSet(jobStore, jobId, NewJob(jobId, user, owner, repo))
    /\ IF Has(analysisQueue)
       THEN /\ proc' = StoreSet(proc, jobId, NewProc("queued", "adding"))
            /\ reply' = NoReply
            /\ UNCHANGED returned
       ELSE /\ proc' = StoreSet(proc, jobId, NewProc("immediate", "scheduled"))
            /\ returned' = returned \cup {jobId}
            /\ reply' = [op |-> "startAnalysis", jobId |-> jobId,
                         outcome |-> "ok", job |-> Undefined]
    /\ UNCHANGED <<analysisQueue, now, llmEnabled, filterCall, quotaExceeded, lastQuotaErrorTime>>

\* await analysisQueue.add(...) resolves: the payload is in the queue, and
\* startAnalysis returns { jobId }
AddResolves(jobId) ==
    /\ jobId \in DOMAIN proc
    /\ proc[jobId].pc = "adding"
    /\ LET job == jobStore[jobId]
       IN  analysisQueue' = Some(Append(Val(analysisQueue),
               Payload(jobId, job.repository.owner, job.repository.repo)))
    /\ proc' = [proc EXCEPT ![jobId].pc = "queued"]
    /\ returned' = returned \cup {jobId}
    /\ reply' = [op |-> "startAnalysis", jobId |-> jobId,
                 outcome |-> "ok", job |-> Undefined]
    /\ UNCHANGED <<jobStore, now, llmEnabled, filterCall, quotaExceeded, lastQuotaErrorTime>>

\* await analysisQueue.add(...) rejects: startAnalysis has no handler for it
\* and rejects in turn
AddRejects(jobId) ==
    /\ jobId \in DOMAIN proc
    /\ proc[jobId].pc = "adding"
    /\ proc' = [proc EXCEPT ![jobId].pc = "rejected"]
    /\ reply' = [op |-> "startAnalysis", jobId |-> jobId,
                 outcome |-> "error", job |-> Undefined]
    /\ UNCHANGED <<jobStore, analysisQueue, returned, now, llmEnabled, filterCall,
                   quotaExceeded, lastQuotaErrorTime>>

\* process that forgets to set the status on its first update
MutProcessBegin(jobId) ==
    /\ jobStore' = updateJobStatus(jobStore, jobId,
           [progress |-> 10, startedAt |-> Some(now)])
    /\ proc' = [proc EXCEPT ![jobId].pc = "fetching"]
    /\ reply' = NoReply
    /\ UNCHANGED <<returned, now, llmEnabled, filterCall, quotaExceeded, lastQuotaErrorTime>>

\* process(job), first stretch: the update to processing, then the call of
\* fetchRepositoryFiles
ProcessBegin(jobId) ==
    /\ jobStore' = updateJobStatus(jobStore, jobId,
           [status |-> "processing", progress |-> 10, startedAt |-> Some(now)])
    /\ proc' = [proc EXCEPT
           ![jobId].pc = "fetching",
           ![jobId].updates = Append(@, Logged(
               [status |-> "processing", progress |-> 10, startedAt |-> Some(now)]))]
    /\ reply' = NoReply
    /\ UNCHANGED <<returned, now, llmEnabled, filterCall, quotaExceeded, lastQuotaErrorTime>>

\* The queue's worker takes the next payload and calls process on it.
WorkerProcess ==
    /\ Has(analysisQueue)
    /\ Val(analysisQueue) # <<>>
    /\ analysisQueue' = Some(Tail(Val(analysisQueue)))
    /\ ProcessBegin(Head(Val(analysisQueue)).jobId)

\* The setImmediate callback runs and calls process.
ImmediateProcess(jobId) ==
    /\ jobId \in DOMAIN proc
    /\ proc[jobId].pc = "scheduled"
    /\ UNCHANGED analysisQueue
    /\ ProcessBegin(jobId)

\* process writing a progress below the one it wrote before
MutFetchReturns(jobId, files) ==
    /\ jobId \in DOMAIN proc
    /\ proc[jobId].pc = "fetching"
    /\ jobStore' = updateJobStatus(jobStore, jobId, [progress |-> 3])
    /\ proc' = [proc EXCEPT ![jobId].pc = "analyzing", ![jobId].files = files]
    /\ reply' = NoReply
    /\ UNCHANGED <<analysisQueue, returned, now, llmEnabled, filterCall,
                   quotaExceeded, lastQuotaErrorTime>>

\* fetchRepositoryFiles returned: the update to progress 30, then the call
\* of analyzeFiles
FetchReturns(jobId, files) ==
    /\ jobId \in DOMAIN proc
    /\ proc[jobId].pc = "fetching"
    /\ jobStore' = updateJobStatus(jobStore, jobId, [progress |-> 30])
    /\ proc' = [proc EXCEPT
           ![jobId].pc = "analyzing",
           ![jobId].files = files,
           ![jobId].updates = Append(@, Logged([progress |-> 30]))]
    /\ reply' = NoReply
    /\ UNCHANGED <<analysisQueue, returned, now, llmEnabled, filterCall,
                   quotaExceeded, lastQuotaErrorTime>>

\* fetchRepositoryFiles, first stretch: the repository and the tree were
\* fetched and filesToAnalyze is built; the loop over it starts.
TreeReturns(jobId, selected) ==
    /\ jobId \in DOMAIN proc
    /\ proc[jobId].pc = "fetching"
    /\ proc' = [proc EXCEPT ![jobId].pc = "contents", ![jobId].selected = selected]
    /\ reply' = NoReply
    /\ UNCHANGED <<jobStore, analysisQueue, returned, now, llmEnabled, filterCall,
                   quotaExceeded, lastQuotaErrorTime>>

\* a loop body without its try/catch: the exception leaves
\* fetchRepositoryFiles and reaches the catch block of process
MutContentFetched(jobId, response) ==
    /\ jobId \in DOMAIN proc
    /\ proc[jobId].pc = "contents"
    /\ Len(proc[jobId].responses) < Len(proc[jobId].selected)
    /\ IF response = "throws"
       THEN /\ jobStore' = updateJobStatus(jobStore, jobId,
                   [status |-> "failed", error |-> Some("fetch failed"),
                    completedAt |-> Some(now)])
            /\ proc' = [proc EXCEPT
                   ![jobId].pc = "rethrown",
                   ![jobId].error = Some(Error("fetch failed")),
                   ![jobId].responses = Append(@, response)]
       ELSE /\ jobStore' = jobStore
            /\ proc' = [proc EXCEPT
                   ![jobId].responses = Append(@, response),
                   ![jobId].files =
                       IF response = "ok"
                       THEN Append(@, proc[jobId].selected[Len(proc[jobId].responses) + 1])
                       ELSE @]
    /\ reply' = NoReply
    /\ UNCHANGED <<analysisQueue, returned, now, llmEnabled, filterCall,
                   quotaExceeded, lastQuotaErrorTime>>

\* One turn of the loop over filesToAnalyze: the content request for the
\* next file ends; the file is pushed when the response is OK and base64,
\* and whatever is thrown is caught and logged inside the loop.
ContentFetched(jobId, response) ==
    /\ jobId \in DOMAIN proc
    /\ proc[jobId].pc = "contents"
    /\ Len(proc[jobId].responses) < Len(proc[jobId].selected)
    /\ proc' = [proc EXCEPT
           ![jobId].responses = Append(@, response),
           ![jobId].files =
               IF response = "ok"
               THEN Append(@, proc[jobId].selected[Len(proc[jobId].responses) + 1])
               ELSE @]
    /\ reply' = NoReply
    /\ UNCHANGED <<jobStore, analysisQueue, returned, now, llmEnabled, filterCall,
                   quotaExceeded, lastQuotaErrorTime>>

\* a fetch that throws when it has obtained no content
MutFetchLoopReturns(jobId) ==
    /\ jobId \in DOMAIN proc
    /\ proc[jobId].pc = "contents"
    /\ Len(proc[jobId].responses) = Len(proc[jobId].selected)
    /\ jobStore' = updateJobStatus(jobStore, jobId,
           IF proc[jobId].files = <<>>
           THEN [status |-> "failed", error |-> Some("No files found"),
                 completedAt |-> Some(now)]
           ELSE [progress |-> 30])
    /\ proc' = [proc EXCEPT
           ![jobId].pc = IF proc[jobId].files = <<>> THEN "rethrown" ELSE "analyzing",
           ![jobId].error = IF proc[jobId].files = <<>>
                            THEN Some(Error("No files found")) ELSE @,
           ![jobId].updates = Append(@, Logged(
               IF proc[jobId].files = <<>>
               THEN [status |-> "failed", error |-> Some("No files found"),
                     completedAt |-> Some(now)]
               ELSE [progress |-> 30]))]
    /\ reply' = NoReply
    /\ UNCHANGED <<analysisQueue, returned, now, llmEnabled, filterCall,
                   quotaExceeded, lastQuotaErrorTime>>

\* The loop is over: fetchRepositoryFiles returns files, then the update to
\* progress 30 and the call of analyzeFiles
FetchLoopReturns(jobId) ==
    /\ jobId \in DOMAIN proc
    /\ proc[jobId].pc = "contents"
    /\ Len(proc[jobId].responses) = Len(proc[jobId].selected)
    /\ jobStore' = updateJobStatus(jobStore, jobId, [progress |-> 30])
    /\ proc' = [proc EXCEPT
           ![jobId].pc = "analyzing",
           ![jobId].updates = Append(@, Logged([progress |-> 30]))]
    /\ reply' = NoReply
    /\ UNCHANGED <<analysisQueue, returned, now, llmEnabled, filterCall,
                   quotaExceeded, lastQuotaErrorTime>>

\* a catch block that records no error message
MutProcessCatch(jobId, error) ==
    /\ jobStore' = updateJobStatus(jobStore, jobId,
           [status |-> "failed", completedAt |-> Some(now)])
    /\ proc' = [proc EXCEPT ![jobId].pc = "rethrown", ![jobId].error = Some(error)]
    /\ reply' = NoReply
    /\ UNCHANGED <<analysisQueue, returned, now, llmEnabled, filterCall,
                   quotaExceeded, lastQuotaErrorTime>>

\* The catch block of process: the update to failed, then throw error
ProcessCatch(jobId, error) ==
    /\ jobStore' = updateJobStatus(jobStore, jobId,
           [status |-> "failed", error |-> Some(ErrorMessage(error)),
            completedAt |-> Some(now)])
    /\ proc' = [proc EXCEPT
           ![jobId].pc = "rethrown",
           ![jobId].error = Some(error),
           ![jobId].updates = Append(@, Logged(
               [status |-> "failed", error |-> Some(ErrorMessage(error)),
                completedAt |-> Some(now)]))]
    /\ reply' = NoReply
    /\ UNCHANGED <<analysisQueue, returned, now, llmEnabled, filterCall,
                   quotaExceeded, lastQuotaErrorTime>>

\* fetchRepositoryFiles threw
FetchThrows(jobId, error) ==
    /\ jobId \in DOMAIN proc
    /\ proc[jobId].pc = "fetching"
    /\ ProcessCatch(jobId, error)

\* analyzeFiles threw: what can throw in it is the work it does per file, on
\* the content of the file; without files it has nothing to run but sums.
AnalyzeThrows(jobId, error) ==
    /\ jobId \in DOMAIN proc
    /\ proc[jobId].pc = "analyzing"
    /\ proc[jobId].files # <<>>
    /\ ProcessCatch(jobId, error)

\* process writing progress 90 whether or not the filter is enabled
MutAnalyzeReturns(jobId, secOutcomes, bpOutcomes) ==
    /\ jobId \in DOMAIN proc
    /\ proc[jobId].pc = "analyzing"
    /\ LET files == proc[jobId].files
           quota == \/ AnyQuotaError(llmEnabled, Detected(files, "security"), secOutcomes)
                    \/ AnyQuotaError(llmEnabled, Detected(files, "bestPractices"), bpOutcomes)
       IN  /\ proc' = [proc EXCEPT
                  ![jobId].pc = "completing",
                  ![jobId].analysisResult =
                      Some(analyzeFiles(files, llmEnabled, secOutcomes, bpOutcomes)),
                  ![jobId].updates = Append(@, Logged(
                      [progress |-> 90]))]
           /\ quotaExceeded' = (quotaExceeded \/ quota)
           /\ lastQuotaErrorTime' =
                  IF quota /\ ~quotaExceeded THEN now ELSE lastQuotaErrorTime
    /\ jobStore' = updateJobStatus(jobStore, jobId,
           [progress |-> 90])
    /\ reply' = NoReply
    /\ UNCHANGED <<analysisQueue, returned, now, llmEnabled, filterCall>>

\* analyzeFiles returned: the update to progress 95 or 90
AnalyzeReturns(jobId, secOutcomes, bpOutcomes) ==
    /\ jobId \in DOMAIN proc
    /\ proc[jobId].pc = "analyzing"
    /\ LET files == proc[jobId].files
           quota == \/ AnyQuotaError(llmEnabled, Detected(files, "security"), secOutcomes)
                    \/ AnyQuotaError(llmEnabled, Detected(files, "bestPractices"), bpOutcomes)
       IN  /\ proc' = [proc EXCEPT
                  ![jobId].pc = "completing",
                  ![jobId].analysisResult =
                      Some(analyzeFiles(files, llmEnabled, secOutcomes, bpOutcomes)),
                  ![jobId].updates = Append(@, Logged(
                      [progress |-> IF llmEnabled THEN 95 ELSE 90]))]
           /\ quotaExceeded' = (quotaExceeded \/ quota)
           /\ lastQuotaErrorTime' =
                  IF quota /\ ~quotaExceeded THEN now ELSE lastQuotaErrorTime
    /\ jobStore' = updateJobStatus(jobStore, jobId,
           [progress |-> IF llmEnabled THEN 95 ELSE 90])
    /\ reply' = NoReply
    /\ UNCHANGED <<analysisQueue, returned, now, llmEnabled, filterCall>>

\* a completion that does not attach the result
MutProcessCompletes(jobId) ==
    /\ jobId \in DOMAIN proc
    /\ proc[jobId].pc = "completing"
    /\ jobStore' = updateJobStatus(jobStore, jobId,
           [status |-> "completed", progress |-> 100, completedAt |-> Some(now)])
    /\ proc' = [proc EXCEPT ![jobId].pc = "done"]
    /\ reply' = NoReply
    /\ UNCHANGED <<analysisQueue, returned, now, llmEnabled, filterCall,
                   quotaExceeded, lastQuotaErrorTime>>

\* process, last stretch: the update to completed, then return analysisResult
ProcessCompletes(jobId) ==
    /\ jobId \in DOMAIN proc
    /\ proc[jobId].pc = "completing"
    /\ jobStore' = updateJobStatus(jobStore, jobId,
           [status |-> "completed", progress |-> 100,
            result |-> proc[jobId].analysisResult, completedAt |-> Some(now)])
    /\ proc' = [proc EXCEPT
           ![jobId].pc = "done",
           ![jobId].updates = Append(@, Logged(
               [status |-> "completed", progress |-> 100,
                result |-> proc[jobId].analysisResult, completedAt |-> Some(now)]))]
    /\ reply' = NoReply
    /\ UNCHANGED <<analysisQueue, returned, now, llmEnabled, filterCall,
                   quotaExceeded, lastQuotaErrorTime>>

\* The catch block of the setImmediate callback in startAnalysis
ImmediateCatch(jobId) ==
    /\ jobId \in DOMAIN proc
    /\ proc[jobId].pc = "rethrown"
    /\ proc[jobId].strategy = "immediate"
    /\ jobStore' = updateJobStatus(jobStore, jobId,
           [status |-> "failed", error |-> Some(ErrorMessage(Val(proc[jobId].error))),
            completedAt |-> Some(now)])
    /\ proc' = [proc EXCEPT
           ![jobId].pc = "done",
           ![jobId].updates = Append(@, Logged(
               [status |-> "failed",
                error |-> Some(ErrorMessage(Val(proc[jobId].error))),
                completedAt |-> Some(now)]))]
    /\ reply' = NoReply
    /\ UNCHANGED <<analysisQueue, returned, now, llmEnabled, filterCall,
                   quotaExceeded, lastQuotaErrorTime>>

\* Under the queued strategy the rejection of process goes to the worker.
WorkerFailed(jobId) ==
    /\ jobId \in DOMAIN proc
    /\ proc[jobId].pc = "rethrown"
    /\ proc[jobId].strategy = "queued"
    /\ proc' = [proc EXCEPT ![jobId].pc = "done"]
    /\ reply' = NoReply
    /\ UNCHANGED <<jobStore, analysisQueue, returned, now, llmEnabled, filterCall,
                   quotaExceeded, lastQuotaErrorTime>>

\* getJobStatus(jobId), as the status endpoint calls it
GetJobStatus(jobId) ==
    /\ reply' = [op |-> "getJobStatus", jobId |-> jobId] @@ getJobStatus(jobStore, jobId)
    /\ UNCHANGED <<jobStore, analysisQueue, proc, returned, now, llmEnabled, filterCall,
                   quotaExceeded, lastQuotaErrorTime>>

\* fetch(...) of fetchRepositoryFiles never settles: the call carries no
\* signal and no timer, so the await in process never resumes.
FetchNeverResponds(jobId) ==
    /\ jobId \in DOMAIN proc
    /\ proc[jobId].pc = "fetching"
    /\ proc' = [proc EXCEPT ![jobId].pc = "hung"]
    /\ reply' = NoReply
    /\ UNCHANGED <<jobStore, analysisQueue, returned, now, llmEnabled, filterCall,
                   quotaExceeded, lastQuotaErrorTime>>

\* chat.completions.create of a validation call never settles: Promise.all
\* of the batch, the filter and analyzeFiles never resume.
FilterNeverResponds(jobId) ==
    /\ jobId \in DOMAIN proc
    /\ proc[jobId].pc = "analyzing"
    /\ llmEnabled
    /\ Detected(proc[jobId].files, "security") \o
          Detected(proc[jobId].files, "bestPractices") # <<>>
    /\ proc' = [proc EXCEPT ![jobId].pc = "hung"]
    /\ reply' = NoReply
    /\ UNCHANGED <<jobStore, analysisQueue, returned, now, llmEnabled, filterCall,
                   quotaExceeded, lastQuotaErrorTime>>

OutcomeSeqs(n) == [1..n -> Outcomes]

Next ==
    \/ Tick
    \/ SetQueue
    \/ \E user \in Users, owner \in Owners, repo \in Repos :
         StartAnalysis(user, owner, repo, NextJobId)
    \/ \E jobId \in JobIds : AddResolves(jobId)
    \/ \E jobId \in JobIds : AddRejects(jobId)
    \/ WorkerProcess
    \/ \E jobId \in JobIds : ImmediateProcess(jobId)
    \/ \E jobId \in JobIds, files \in FetchedFiles : FetchReturns(jobId, files)
    \/ \E jobId \in JobIds, error \in FetchErrors : FetchThrows(jobId, error)
    \/ \E jobId \in JobIds, error \in DetectionErrors : AnalyzeThrows(jobId, error)
    \/ \E jobId \in JobIds :
         /\ jobId \in DOMAIN proc
         /\ \E secOutcomes \in OutcomeSeqs(Len(Detected(proc[jobId].files, "security"))),
               bpOutcomes \in OutcomeSeqs(Len(Detected(proc[jobId].files, "bestPractices"))) :
              AnalyzeReturns(jobId, secOutcomes, bpOutcomes)
    \/ \E jobId \in JobIds : ProcessCompletes(jobId)
    \/ \E jobId \in JobIds : ImmediateCatch(jobId)
    \/ \E jobId \in JobIds : WorkerFailed(jobId)

Spec == Init /\ [][Next]_vars

\* The pipeline together with the callers of the status endpoint, in a
\* process started without OPENAI_API_KEY (the confidence filter is off).
InitQuery == Init /\ ~llmEnabled

NextQuery ==
    \/ Next
    \/ \E jobId \in QueryIds : GetJobStatus(jobId)

SpecQuery == InitQuery /\ [][NextQuery]_vars

\* The pipeline with network calls that may never respond.  The event loop
\* runs every callback that is ready and the queue's worker takes every
\* payload, so each step of a job that stays possible is eventually taken.
JobStep(jobId) ==
    \/ AddResolves(jobId)
    \/ AddRejects(jobId)
    \/ ImmediateProcess(jobId)
    \/ \E files \in FetchedFiles : FetchReturns(jobId, files)
    \/ \E error \in FetchErrors : FetchThrows(jobId, error)
    \/ FetchNeverResponds(jobId)
    \/ \E error \in DetectionErrors : AnalyzeThrows(jobId, error)
    \/ /\ jobId \in DOMAIN proc
       /\ \E secOutcomes \in OutcomeSeqs(Len(Detected(proc[jobId].files, "security"))),
             bpOutcomes \in OutcomeSeqs(Len(Detected(proc[jobId].files, "bestPractices"))) :
            AnalyzeReturns(jobId, secOutcomes, bpOutcomes)
    \/ FilterNeverResponds(jobId)
    \/ ProcessCompletes(jobId)
    \/ ImmediateCatch(jobId)
    \/ WorkerFailed(jobId)

NextLive ==
    \/ Tick
    \/ SetQueue
    \/ \E user \in Users, owner \in Owners, repo \in Repos :
         StartAnalysis(user, owner, repo, NextJobId)
    \/ WorkerProcess
    \/ \E jobId \in JobIds : JobStep(jobId)

SpecLive ==
    /\ Init
    /\ [][NextLive]_vars
    /\ WF_vars(WorkerProcess)
    /\ \A jobId \in JobIds : WF_vars(JobStep(jobId))

\* The pipeline of the immediate strategy with fetchRepositoryFiles taken
\* one content request at a time, in a process started without
\* OPENAI_API_KEY.
NextFetch ==
    \/ Tick
    \/ \E user \in Users, owner \in Owners, repo \in Repos :
         StartAnalysis(user, owner, repo, NextJobId)
    \/ \E jobId \in JobIds : ImmediateProcess(jobId)
    \/ \E jobId \in JobIds, error \in FetchErrors : FetchThrows(jobId, error)
    \/ \E jobId \in JobIds, selected \in SelectedFiles : TreeReturns(jobId, selected)
    \/ \E jobId \in JobIds, response \in ContentResponses :
         ContentFetched(jobId, response)
    \/ \E jobId \in JobIds : FetchLoopReturns(jobId)
    \/ \E jobId \in JobIds, error \in DetectionErrors : AnalyzeThrows(jobId, error)
    \/ \E jobId \in JobIds :
         /\ jobId \in DOMAIN proc
         /\ \E secOutcomes \in OutcomeSeqs(Len(Detected(proc[jobId].files, "security"))),
               bpOutcomes \in OutcomeSeqs(Len(Detected(proc[jobId].files, "bestPractices"))) :
              AnalyzeReturns(jobId, secOutcomes, bpOutcomes)
    \/ \E jobId \in JobIds : ProcessCompletes(jobId)
    \/ \E jobId \in JobIds : ImmediateCatch(jobId)

SpecFetch == InitQuery /\ [][NextFetch]_vars

---------------------------------------------------------------------------
(* LLMService on its own: analyzeSecurityIssues and analyzeBestPractices   *)
(* called on the findings of one file, and the per-file filtering of       *)
(* analyzeFiles called on the findings of two files.                       *)

\* up to this length every sequence of outcomes is tried
MaxShort == 2
\* the longest list of findings handed to the filter
MaxIssues == 52

\* An answer that validates the finding and improves all three fields.
Improved ==
    [isValidIssue |-> TRUE, confidence |-> 9,
     improvedMessage |-> "Password literal in source",
     improvedRecommendation |-> "Load the secret from the environment",
     severity |-> "medium"]

\* How one chat.completions.create call can end (see Outcomes): here also
\* with improved values, with a confidence of exactly 0.6 and just above
\* it, and with no content.
FilterOutcomes ==
    { [kind |-> "json", result |-> Improved],
      [kind |-> "json", result |-> NoImprovement(TRUE, 7)],
      [kind |-> "json", result |-> NoImprovement(TRUE, 6)],
      [kind |-> "json", result |-> NoImprovement(FALSE, 9)],
      [kind |-> "empty", result |-> NoImprovement(TRUE, 0)],
      [kind |-> "error", result |-> NoImprovement(TRUE, 0)],
      [kind |-> "quota", result |-> NoImprovement(TRUE, 0)],
      [kind |-> "null", result |-> NoImprovement(TRUE, 0)] }

\* n findings of one file, on lines 1..n
SecurityIssuesOf(path, n) == [i \in 1..n |-> [SecA EXCEPT !.file = path, !.line = i]]
BestPracticeIssuesOf(path, n) == [i \in 1..n |-> [BpA EXCEPT !.file = path, !.line = i]]

\* The lengths tried: the short ones, one batch and one more, and those
\* around the limit of 50.
IssueCounts ==
    (0..MaxShort) \cup {BatchSize, BatchSize + 1} \cup ((AnalyzeLimit - 1)..MaxIssues)

\* The positions at which a long sequence of outcomes departs from its
\* common outcome: the ends of the list, of the first batch and of the limit.
Positions(n) ==
    {1, BatchSize, BatchSize + 1, AnalyzeLimit, AnalyzeLimit + 1, n} \cap (1..n)

\* The outcomes tried for n validation calls.
FilterOutcomeSeqs(n) ==
    IF n <= MaxShort THEN [1..n -> FilterOutcomes]
    ELSE { [i \in 1..n |-> IF i = p THEN o ELSE d] :
             d \in FilterOutcomes, o \in FilterOutcomes, p \in Positions(n) }

\* The number of chat.completions.create calls one call of the filter makes.
Requests(enabled, issues, outcomes) ==
    IF ~enabled \/ issues = <<>> THEN 0
    ELSE LastIssued(Min(AnalyzeLimit, Len(issues)), outcomes)

\* The same, summed over the per-file calls that analyzeFiles makes.
RECURSIVE RequestsByFile(_, _, _, _)
RequestsByFile(enabled, issues, outcomes, keys) ==
    IF keys = <<>> THEN 0
    ELSE LET idx == IndicesOf(issues, Head(keys), 1)
         IN  Requests(enabled, Pick(issues, idx), Pick(outcomes, idx))
               + RequestsByFile(enabled, issues, outcomes, Tail(keys))

\* What a call of the filter leaves in quotaExceeded / lastQuotaErrorTime
\* when one of its validation calls meets a 429 / quota error.
QuotaSeen(quota) ==
    /\ quotaExceeded' = (quotaExceeded \/ quota)
    /\ lastQuotaErrorTime' = IF quota /\ ~quotaExceeded THEN now ELSE lastQuotaErrorTime

FilterReply(op, issues, outcomes, output, requests) ==
    [op |-> op, enabled |-> llmEnabled, issues |-> issues, outcomes |-> outcomes,
     output |-> output, requests |-> requests]

\* analyzeSecurityIssues(issues, fileContent), the whole call
AnalyzeSecurityIssuesCall(issues, outcomes) ==
    /\ reply' = FilterReply("analyzeSecurityIssues", issues, outcomes,
                    analyzeSecurityIssues(llmEnabled, issues, outcomes),
                    Requests(llmEnabled, issues, outcomes))
    /\ QuotaSeen(SeesQuotaError(llmEnabled, issues, outcomes))
    /\ UNCHANGED <<jobStore, analysisQueue, proc, returned, now, llmEnabled, filterCall>>

\* analyzeBestPractices(issues, fileContent), the whole call
AnalyzeBestPracticesCall(issues, outcomes) ==
    /\ reply' = FilterReply("analyzeBestPractices", issues, outcomes,
                    analyzeBestPractices(llmEnabled, issues, outcomes),
                    Requests(llmEnabled, issues, outcomes))
    /\ QuotaSeen(SeesQuotaError(llmEnabled, issues, outcomes))
    /\ UNCHANGED <<jobStore, analysisQueue, proc, returned, now, llmEnabled, filterCall>>

\* The security filtering of analyzeFiles on the findings of a job: one
\* call of analyzeSecurityIssues per file, the outputs concatenated.
FilterSecurityIssuesOfJob(issues, outcomes) ==
    /\ reply' = FilterReply("filterSecurityByFile", issues, outcomes,
                    IF llmEnabled
                    THEN FilterSecurityByFile(llmEnabled, issues, outcomes)
                    ELSE issues,
                    RequestsByFile(llmEnabled, issues, outcomes, FileKeys(issues, {})))
    /\ QuotaSeen(AnyQuotaError(llmEnabled, issues, outcomes))
    /\ UNCHANGED <<jobStore, analysisQueue, proc, returned, now, llmEnabled, filterCall>>

\* The findings of a job of two files: k in the first, m in the second.
JobIssues ==
    { SecurityIssuesOf("src/a.ts", k) \o SecurityIssuesOf("src/b.ts", m) :
        k \in (AnalyzeLimit - 1)..AnalyzeLimit, m \in 1..MaxShort }

\* One call of the filter in a freshly constructed service.
FirstCall == reply = NoReply

NextFilter ==
    \/ \E n \in IssueCounts, outcomes \in FilterOutcomeSeqs(MaxIssues) :
         /\ FirstCall
         /\ AnalyzeSecurityIssuesCall(SecurityIssuesOf("src/a.ts", n),
                                      SubSeq(outcomes, 1, n))
    \/ \E n \in IssueCounts, outcomes \in FilterOutcomeSeqs(MaxIssues) :
         /\ FirstCall
         /\ AnalyzeBestPracticesCall(BestPracticeIssuesOf("src/a.ts", n),
                                     SubSeq(outcomes, 1, n))
    \/ \E issues \in JobIssues, outcomes \in FilterOutcomeSeqs(MaxIssues) :
         /\ FirstCall
         /\ FilterSecurityIssuesOfJob(issues, SubSeq(outcomes, 1, Len(issues)))
    \/ \E n \in 0..MaxShort : \E outcomes \in FilterOutcomeSeqs(n) :
         /\ FirstCall
         /\ AnalyzeSecurityIssuesCall(SecurityIssuesOf("src/a.ts", n), outcomes)
    \/ \E n \in 0..MaxShort : \E outcomes \in FilterOutcomeSeqs(n) :
         /\ FirstCall
         /\ AnalyzeBestPracticesCall(BestPracticeIssuesOf("src/a.ts", n), outcomes)

SpecFilter == Init /\ [][NextFilter]_vars

\* 'Will retry after 1 hour': the cooldown the quota warning announces, in
\* clock ticks (here one tick of the clock is one hour).
CooldownTicks == 1

\* Calls of the filter one after the other as the clock advances.
NextBreaker ==
    \/ Tick
    \/ \E n \in 0..MaxShort : \E outcomes \in FilterOutcomeSeqs(n) :
         AnalyzeSecurityIssuesCall(SecurityIssuesOf("src/a.ts", n), outcomes)
    \/ \E n \in 0..MaxShort : \E outcomes \in FilterOutcomeSeqs(n) :
         AnalyzeBestPracticesCall(BestPracticeIssuesOf("src/a.ts", n), outcomes)

SpecBreaker == Init /\ [][NextBreaker]_vars

---------------------------------------------------------------------------
(* AnalysisController: POST /analyze and POST /analyze/batch, in the       *)
(* application as it is wired: nothing calls setQueue, so startAnalysis    *)
(* takes its setImmediate branch and returns without awaiting anything.    *)

\* repositories.length > 10
MaxBatch == 10

\* An owner or repo that the request leaves out or leaves empty: !owner is
\* true of undefined and of "" alike.
Missing == ""

RepoName(i) == "repo" \o ToString(i)

\* A well-formed body of POST /analyze/batch with n repositories
Repositories(n) == [i \in 1..n |-> [owner |-> "octo", repo |-> RepoName(i)]]

\* The same with the owner, the repo, or both missing from one entry
Malformed(n) ==
    UNION { { [Repositories(n) EXCEPT ![p] = [owner |-> o, repo |-> r]] :
                o \in {Missing, "octo"}, r \in {Missing, RepoName(p)} } :
            p \in 1..n }

\* The bodies tried: up to one repository more than the limit.
BatchBodies == UNION { {Repositories(n)} \cup Malformed(n) : n \in 0..(MaxBatch + 1) }

StartBodies == [owner : Owners \cup {Missing}, repo : Repos \cup {Missing}]

\* Math.random().toString(36).substr(2, 9): the suffixes a call can draw.
\* There are more of them than a batch has entries, so that the calls of a
\* batch can all draw different ones.
Suffixes == 1..(MaxBatch + 1)

\* `analysis-${Date.now()}-${suffix}`: two ids are equal exactly when both
\* the clock value and the suffix are.
JobId(time, suffix) == time * (MaxBatch + 1) + suffix

\* The suffixes the n calls of one batch draw: all different, or the same
\* one at two of the positions.
SuffixSeqs(n) ==
    {[i \in 1..n |-> i]} \cup
    { [i \in 1..n |-> IF i = q THEN p ELSE i] :
        p \in {1, n - 1} \cap (1..n), q \in {2, n} \cap (1..n) }

\* repositories.map(startAnalysis): the job store after the calls for the
\* entries i, i + 1, ... have run, each up to its return; jobIds[i] is the id
\* the call for entry i generated.  jobStore.set replaces what the id held.
RECURSIVE StartAll(_, _, _, _, _)
StartAll(store, user, repositories, jobIds, i) ==
    IF i > Len(repositories) THEN store
    ELSE StartAll(StoreSet(store, jobIds[i],
                      NewJob(jobIds[i], user, repositories[i].owner, repositories[i].repo)),
                  user, repositories, jobIds, i + 1)

\* The ids the calls of a batch generate: they all read the same clock value.
BatchJobIds(time, suffixes) == [i \in 1..Len(suffixes) |-> JobId(time, suffixes[i])]

BatchReply(outcome, repositories, jobIds) ==
    [op |-> "startBatchAnalysis", outcome |-> outcome,
     repositories |-> repositories, jobIds |-> jobIds]

\* AnalysisController.startBatchAnalysis(req, body), the whole request.
\* (Two calls that generate the same id also register two callbacks for it;
\* proc keeps one entry per id.)
StartBatchAnalysis(user, repositories, suffixes) ==
    /\ ~Has(analysisQueue)
    /\ Cardinality(DOMAIN jobStore) < MaxJobs
    /\ IF repositories = <<>> \/ Len(repositories) > MaxBatch
       THEN /\ reply' = BatchReply("error", repositories, <<>>)
            /\ UNCHANGED <<jobStore, proc, returned>>
       ELSE LET jobIds == BatchJobIds(now, suffixes)
            IN  /\ jobStore' = StartAll(jobStore, user, repositories, jobIds, 1)
                /\ proc' = [j \in DOMAIN proc \cup {jobIds[i] : i \in DOMAIN jobIds} |->
                               IF j \in {jobIds[i] : i \in DOMAIN jobIds}
                               THEN NewProc("immediate", "scheduled")
                               ELSE proc[j]]
                /\ returned' = returned \cup {jobIds[i] : i \in DOMAIN jobIds}
                /\ reply' = BatchReply("ok", repositories, jobIds)
    /\ UNCHANGED <<analysisQueue, now, llmEnabled, filterCall, quotaExceeded, lastQuotaErrorTime>>

\* AnalysisController.startAnalysis(req, body), the whole request
ControllerStartAnalysis(user, body, suffix) ==
    /\ ~Has(analysisQueue)
    /\ IF body.owner = Missing \/ body.repo = Missing
       THEN /\ reply' = [op |-> "controllerStartAnalysis", outcome |-> "error",
                         body |-> body]
            /\ UNCHANGED <<jobStore, analysisQueue, proc, returned, now, llmEnabled, filterCall,
                           quotaExceeded, lastQuotaErrorTime>>
       ELSE StartAnalysis(user, body.owner, body.repo, JobId(now, suffix))

NextBatch ==
    \/ Tick
    \/ \E user \in Users, body \in StartBodies, suffix \in {1, 2} :
         ControllerStartAnalysis(user, body, suffix)
    \/ \E user \in Users, repositories \in BatchBodies :
         \E suffixes \in SuffixSeqs(Len(repositories)) :
            StartBatchAnalysis(user, repositories, suffixes)

SpecBatch == Init /\ [][NextBatch]_vars

---------------------------------------------------------------------------
(* AnalysisProcessor.process as a function of how its two awaits end: the  *)
(* updateJobStatus calls it makes, in order (Date values left out).  This  *)
(* is all that the worker of the queued strategy runs for a job.           *)

\* fetchError / analyzeError: what fetchRepositoryFiles / analyzeFiles threw,
\* or Undefined; analysisResult: what analyzeFiles returned, or Undefined.
ProcessUpdates(fetchError, analyzeError, analysisResult, enabled) ==
    LET processing == Logged([status |-> "processing", progress |-> 10,
                              startedAt |-> Some(0)])
        failed(error) == Logged([status |-> "failed",
                                 error |-> Some(ErrorMessage(Val(error))),
                                 completedAt |-> Some(0)])
        completed == Logged([status |-> "completed", progress |-> 100,
                             result |-> analysisResult, completedAt |-> Some(0)])
    IN  IF Has(fetchError) THEN <<processing, failed(fetchError)>>
        ELSE IF Has(analyzeError)
             THEN <<processing, Logged([progress |-> 30]), failed(analyzeError)>>
             ELSE <<processing, Logged([progress |-> 30]),
                    Logged([progress |-> IF enabled THEN 95 ELSE 90]), completed>>

\* Object.assign of a list of updates, one after the other
RECURSIVE AssignAll(_, _)
AssignAll(job, updates) ==
    IF updates = <<>> THEN job
    ELSE AssignAll(Assign(job, Head(updates)), Tail(updates))

---------------------------------------------------------------------------
(* AnalysisService.getUserHistory, called on job stores of up to           *)
(* MaxHistory jobs of two principals.                                      *)

\* .slice(0, 50)
HistoryLimit == 50
\* the largest job store handed to getUserHistory
MaxHistory == 52

HistoryUsers == {1, 2}

\* Array.from(jobStore.values()): the records in insertion order, which is
\* the order of the ids.
AllJobs(store) == [i \in 1..Cardinality(DOMAIN store) |-> store[i]]

\* a.completedAt?.getTime() || 0
CompletedTime(job) == IF Has(job.completedAt) THEN Val(job.completedAt) ELSE 0

\* Array.prototype.sort with the comparator dateB - dateA: a stable sort,
\* latest completion first.  InsertByDate puts job behind every record of
\* the sorted list that completed no earlier than it.
RECURSIVE InsertByDate(_, _)
InsertByDate(sorted, job) ==
    IF sorted = <<>> THEN <<job>>
    ELSE IF CompletedTime(Head(sorted)) >= CompletedTime(job)
         THEN <<Head(sorted)>> \o InsertByDate(Tail(sorted), job)
         ELSE <<job>> \o sorted

RECURSIVE SortByDate(_, _, _)
SortByDate(jobs, i, sorted) ==
    IF i > Len(jobs) THEN sorted
    ELSE SortByDate(jobs, i + 1, InsertByDate(sorted, jobs[i]))

\* a history without the sort: the jobs in the order of the store
MutGetUserHistory(store, userId) ==
    LET mine == SelectSeq(AllJobs(store),
                    LAMBDA job : /\ job.userId = userId
                                 /\ job.status = "completed"
                                 /\ Has(job.result))
    IN  SubSeq(mine, 1, Min(HistoryLimit, Len(mine)))

\* getUserHistory(userId)
getUserHistory(store, userId) ==
    LET mine == SelectSeq(AllJobs(store),
                    LAMBDA job : /\ job.userId = userId
                                 /\ job.status = "completed"
                                 /\ Has(job.result))
        sorted == SortByDate(mine, 1, <<>>)
    IN  SubSeq(sorted, 1, Min(HistoryLimit, Len(sorted)))

\* The record of a job that the pipeline left in the given status: started
\* at createdAt, and ended (completed or failed) at endedAt.
JobIn(jobId, user, status, createdAt, endedAt) ==
    LET pending == [NewJob(jobId, user, "octo", "hello") EXCEPT !.createdAt = createdAt]
    IN  CASE status = "pending" -> pending
          [] status = "processing" ->
               Assign(pending, [status |-> "processing", progress |-> 30,
                                startedAt |-> Some(createdAt)])
          [] status = "completed" ->
               Assign(pending, [status |-> "completed", progress |-> 100,
                                startedAt |-> Some(createdAt),
                                result |-> Some(analyzeFiles(<<>>, FALSE, <<>>, <<>>)),
                                completedAt |-> Some(endedAt)])
          [] status = "failed" ->
               Assign(pending, [status |-> "failed", progress |-> 10,
                                startedAt |-> Some(createdAt),
                                error |-> Some("Failed to fetch repository: Unauthorized"),
                                completedAt |-> Some(endedAt)])

\* Where the pipeline of such a job stands under the immediate strategy, and
\* what it holds.
ProcIn(job) ==
    LET unauthorized == Some(Error(Val(job.error)))
        begun == <<Logged([status |-> "processing", progress |-> 10,
                           startedAt |-> Some(0)])>>
    IN  CASE job.status = "pending" -> NewProc("immediate", "scheduled")
          [] job.status = "processing" ->
               [NewProc("immediate", "analyzing") EXCEPT
                   !.updates = begun \o <<Logged([progress |-> 30])>>]
          [] job.status = "completed" ->
               [NewProc("immediate", "done") EXCEPT
                   !.analysisResult = job.result,
                   !.updates = ProcessUpdates(Undefined, Undefined, job.result, FALSE)]
          [] job.status = "failed" ->
               [NewProc("immediate", "done") EXCEPT
                   !.error = unauthorized,
                   !.updates = ProcessUpdates(unauthorized, Undefined, Undefined, FALSE)
                                 \o <<Logged([status |-> "failed", error |-> job.error,
                                              completedAt |-> Some(0)])>>]

JobKinds == [user : HistoryUsers, status : {"pending", "processing", "completed", "failed"}]

\* The sizes of job store tried: the small ones and those around the limit.
HistoryCounts == (0..MaxShort) \cup ((HistoryLimit - 1)..MaxHistory)

\* The order in which the jobs of a store of n jobs ended: in the order they
\* were started, in the reverse order, or two by two at the same time.
EndTimes(n) ==
    { [i \in 1..n |-> i], [i \in 1..n |-> n + 1 - i], [i \in 1..n |-> (i + 1) \div 2] }

\* Job stores of the given sizes: every combination of kinds for the small
\* ones; for the large ones a common kind with one job of another kind.
StoresOf(counts) ==
    UNION { { [i \in 1..n |->
                 LET kind == IF n <= MaxShort THEN kinds[i]
                             ELSE IF i = p THEN kinds[1] ELSE kinds[2]
                 IN  JobIn(i, kind.user, kind.status, 0, times[i])] :
              kinds \in [1..MaxShort -> JobKinds], times \in EndTimes(n),
              p \in {1, 2, HistoryLimit, n} } :
            n \in counts }

\* The service some time after its start, with such a job store.
InitStores(counts) ==
    /\ now = MaxHistory
    /\ jobStore \in StoresOf(counts)
    /\ analysisQueue = Undefined
    /\ proc = [j \in DOMAIN jobStore |-> ProcIn(jobStore[j])]
    /\ returned = DOMAIN jobStore
    /\ reply = NoReply
    /\ llmEnabled = FALSE
    /\ quotaExceeded = FALSE
    /\ lastQuotaErrorTime = 0
    /\ filterCall = NoCall

\* AnalysisController.getAnalysisHistory(req): the body of the response
GetAnalysisHistory(userId) ==
    /\ LET history == getUserHistory(jobStore, userId)
       IN  reply' = [op |-> "getAnalysisHistory", userId |-> userId,
                     count |-> Len(history), analyses |-> history]
    /\ UNCHANGED <<jobStore, analysisQueue, proc, returned, now, llmEnabled, filterCall,
                   quotaExceeded, lastQuotaErrorTime>>

NextHistory == \E userId \in HistoryUsers : GetAnalysisHistory(userId)

InitHistory == InitStores(HistoryCounts)

SpecHistory == InitHistory /\ [][NextHistory]_vars

---------------------------------------------------------------------------
(* AnalysisService.sendWebhookNotification.  The method is declared on the *)
(* service, and nothing in the repository calls it: neither process, nor   *)
(* the setImmediate callback of startAnalysis, nor updateJobStatus.  It is *)
(* therefore a step of none of the specifications of this module.          *)

\* process.env.WEBHOOK_URL: unset, or the endpoint
WebhookUrls == {Undefined, Some("https://hooks.example/notify")}

\* the JSON body of the POST
WebhookPayload(job, status) ==
    [event |-> "analysis.completed",
     jobId |-> job.id,
     repository |-> job.repository,
     status |-> job.status,
     progress |-> job.progress,
     completedAt |-> job.completedAt,
     result |-> IF status = "completed" /\ Has(job.result)
                THEN Some([summary |-> Val(job.result).summary,
                           metrics |-> Val(job.result).metrics,
                           totalIssues |-> Len(Val(job.result).findings.security)
                                             + Len(Val(job.result).findings.bestPractices)])
                ELSE Undefined,
     error |-> IF status = "failed" THEN job.error ELSE Undefined]

\* sendWebhookNotification(jobId, status): the POST it makes, if any.  It
\* returns at once without an endpoint, and the NotFoundException of
\* getJobStatus is caught and logged.
SendWebhookNotification(webhookUrl, jobId, status) ==
    /\ IF Has(webhookUrl) /\ getJobStatus(jobStore, jobId).outcome = "ok"
       THEN reply' = [op |-> "sendWebhookNotification", url |-> Val(webhookUrl),
                      payload |-> WebhookPayload(jobStore[jobId], status)]
       ELSE reply' = NoReply
    /\ UNCHANGED <<jobStore, analysisQueue, proc, returned, now, llmEnabled, filterCall,
                   quotaExceeded, lastQuotaErrorTime>>

---------------------------------------------------------------------------
(* AnalysisProcessor.fetchRepositoryFiles: the choice of filesToAnalyze    *)
(* from the repository tree.  Paths are strings, and the two recognizers   *)
(* work on them as the code does.                                          *)

\* otherCodeFiles.slice(0, 50)
CodeFileLimit == 50
\* the largest number of source-code files in a tree
MaxCodeFiles == 52

UpperCase == "ABCDEFGHIJKLMNOPQRSTUVWXYZ"
LowerCase == "abcdefghijklmnopqrstuvwxyz"

\* the lower-case letter of each upper-case letter
LowerOf ==
    [c \in {SubSeq(UpperCase, i, i) : i \in 1..Len(UpperCase)} |->
        LET i == CHOOSE i \in 1..Len(UpperCase) : SubSeq(UpperCase, i, i) = c
        IN  SubSeq(LowerCase, i, i)]

\* String.prototype.toLowerCase, on the letters A to Z
RECURSIVE ToLowerCase(_)
ToLowerCase(s) ==
    IF s = "" THEN ""
    ELSE LET c == SubSeq(s, 1, 1)
         IN  (IF c \in DOMAIN LowerOf THEN LowerOf[c] ELSE c)
             \o ToLowerCase(SubSeq(s, 2, Len(s)))

\* String.prototype.endsWith
EndsWith(s, suffix) ==
    /\ Len(s) >= Len(suffix)
    /\ SubSeq(s, Len(s) - Len(suffix) + 1, Len(s)) = suffix

\* String.prototype.includes
Includes(s, part) ==
    \E i \in 1..(Len(s) - Len(part) + 1) : SubSeq(s, i, i + Len(part) - 1) = part

codeExtensions ==
    { ".ts", ".tsx", ".js", ".jsx", ".py", ".java", ".cpp", ".c", ".cs", ".go",
      ".rs", ".rb", ".php", ".swift", ".kt", ".scala", ".clj", ".sh", ".bash",
      ".zsh", ".html", ".css" }

configFiles ==
    { "package.json", "package-lock.json", "yarn.lock", "pnpm-lock.yaml",
      "requirements.txt", "pipfile", "go.mod", "cargo.toml", "pom.xml",
      "build.gradle", "dockerfile", "docker-compose.yml", "docker-compose.yaml",
      "tsconfig.json", "tailwind.config.js", "tailwind.config.ts",
      "webpack.config.js", "vite.config.js", "vite.config.ts", ".env.example" }

\* isCodeFile(path)
isCodeFile(path) ==
    LET pathLower == ToLowerCase(path)
    IN  \E ext \in codeExtensions : EndsWith(pathLower, ext)

\* file.toLowerCase(), for each of them
configFilesLower == {ToLowerCase(file) : file \in configFiles}

\* isConfigFile(path)
isConfigFile(path) ==
    LET pathLower == ToLowerCase(path)
    IN  \E file \in configFilesLower : Includes(pathLower, file)

Blob(path) == [type |-> "blob", path |-> path]
Tree(path) == [type |-> "tree", path |-> path]

\* slice(0, n)
Slice(seq, n) == SubSeq(seq, 1, Min(n, Len(seq)))

\* a selection that keeps the order of the tree and cuts it at 50 files
MutFilesToAnalyze(tree) ==
    LET codeFiles == SelectSeq(tree, LAMBDA item :
                         /\ item.type = "blob"
                         /\ (isCodeFile(item.path) \/ isConfigFile(item.path)))
    IN  Slice(codeFiles, CodeFileLimit)

\* filesToAnalyze, from treeData.tree
FilesToAnalyze(tree) ==
    LET codeFiles == SelectSeq(tree, LAMBDA item :
                         /\ item.type = "blob"
                         /\ (isCodeFile(item.path) \/ isConfigFile(item.path)))
        configs == SelectSeq(codeFiles, LAMBDA item : isConfigFile(item.path))
        otherCodeFiles == SelectSeq(codeFiles, LAMBDA item : ~isConfigFile(item.path))
    IN  configs \o Slice(otherCodeFiles, CodeFileLimit)

\* The source-code files of the trees tried, in three languages.
CodeFile(i) ==
    Blob("src/f" \o ToString(i) \o
         (CASE i % 3 = 0 -> ".ts" [] i % 3 = 1 -> ".py" [] OTHER -> ".CSS"))
CodeFilesOf(n) == [i \in 1..n |-> CodeFile(i)]

\* The other entries tried: manifests at the root and below it, a config
\* file with a code extension, files that are neither, and directories.
OtherEntries ==
    << Blob("package.json"), Blob("docker/Dockerfile"), Blob("web/vite.config.ts"),
       Blob("README.md"), Blob("assets/logo.png"), Tree("src"), Tree("scripts.sh"),
       Blob("api/requirements.txt") >>

\* The number of source-code files tried: few, and around the limit.
CodeFileCounts == {0, 1} \cup ((CodeFileLimit - 1)..MaxCodeFiles)

\* The trees tried: the code files with none, one or all of the other
\* entries, put before them, after them, or after the first of them.
Trees ==
    UNION { { others \o CodeFilesOf(n),
              CodeFilesOf(n) \o others,
              Slice(CodeFilesOf(n), 1) \o others \o SubSeq(CodeFilesOf(n), 2, n) } :
            n \in CodeFileCounts,
            others \in {<<>>, OtherEntries}
                         \cup {<<OtherEntries[k]>> : k \in 1..Len(OtherEntries)} }

\* fetchRepositoryFiles up to the start of its loop, for a tree response
ListFilesToAnalyze(tree) ==
    /\ reply' = [op |-> "filesToAnalyze", tree |-> tree,
                 filesToAnalyze |-> FilesToAnalyze(tree)]
    /\ UNCHANGED <<jobStore, analysisQueue, proc, returned, now, llmEnabled, filterCall,
                   quotaExceeded, lastQuotaErrorTime>>

NextSelect == \E tree \in Trees : FirstCall /\ ListFilesToAnalyze(tree)

SpecSelect == Init /\ [][NextSelect]_vars

---------------------------------------------------------------------------
(* AnalysisController: the routes of the controller and the dispatch of a  *)
(* GET request to the first route, in declaration order, whose method and  *)
(* path pattern match.  A path is the list of its segments after /analyze. *)

Routes ==
    << [method |-> "POST", path |-> <<>>, handler |-> "startAnalysis"],
       [method |-> "GET", path |-> <<":jobId">>, handler |-> "getAnalysisStatus"],
       [method |-> "GET", path |-> <<":jobId", "export", "json">>, handler |-> "exportJson"],
       [method |-> "GET", path |-> <<":jobId", "export", "csv">>, handler |-> "exportCsv"],
       [method |-> "POST", path |-> <<"batch">>, handler |-> "startBatchAnalysis"],
       [method |-> "GET", path |-> <<":jobId", "export", "pdf">>, handler |-> "exportPdf"],
       [method |-> "GET", path |-> <<"history", "list">>, handler |-> "getAnalysisHistory"],
       [method |-> "GET", path |-> <<"analytics">>, handler |-> "getAnalytics"] >>

\* A route parameter (":jobId") matches any one segment, a literal matches
\* itself.
Matches(route, method, path) ==
    /\ route.method = method
    /\ Len(route.path) = Len(path)
    /\ \A i \in 1..Len(path) :
          SubSeq(route.path[i], 1, 1) = ":" \/ route.path[i] = path[i]

NoRoute == [method |-> "", path |-> <<>>, handler |-> "none"]

\* The route a request is dispatched to: the first one that matches.
RouteOf(method, path) ==
    LET hits == {k \in 1..Len(Routes) : Matches(Routes[k], method, path)}
    IN  IF hits = {} THEN NoRoute
        ELSE Routes[CHOOSE k \in hits : \A m \in hits : k <= m]

\* The text of a job id, as it stands in a URL.
JobIdText(jobId) == "analysis-" \o ToString(jobId)

\* The key of the store that a text names; 0, which is no job's id, if none.
KeyOf(store, text) ==
    IF \E j \in DOMAIN store : JobIdText(j) = text
    THEN CHOOSE j \in DOMAIN store : JobIdText(j) = text
    ELSE 0

\* history.reduce((sum, job) => sum + (job.result?.metrics.codeQuality.score || 0), 0)
RECURSIVE SumOfScores(_)
SumOfScores(history) ==
    IF history = <<>> THEN 0
    ELSE Val(Head(history).result).metrics.codeQuality.score + SumOfScores(Tail(history))

\* the same over the lengths of findings.security and findings.bestPractices
RECURSIVE SumOfIssues(_)
SumOfIssues(history) ==
    IF history = <<>> THEN 0
    ELSE Len(Val(Head(history).result).findings.security)
           + Len(Val(Head(history).result).findings.bestPractices)
           + SumOfIssues(Tail(history))

\* The body of getAnalytics for a history; the average is in hundredths.
\* (Left out: recentAnalyses, trends, languageDistribution and the two lists
\* of most common messages.)
Analytics(history) ==
    IF history = <<>>
    THEN [totalAnalyses |-> 0, averageQualityScore |-> 0, totalIssues |-> 0,
          repositoriesAnalyzed |-> 0]
    ELSE [totalAnalyses |-> Len(history),
          averageQualityScore |-> Round(100 * SumOfScores(history), Len(history)),
          totalIssues |-> SumOfIssues(history),
          repositoriesAnalyzed |->
              Cardinality({history[i].repository.fullName : i \in 1..Len(history)})]

\* What the handler of a route answers.  The export handlers answer 400
\* unless the job is completed and has a result; NotFoundException is 404.
Respond(handler, userId, path) ==
    LET found == getJobStatus(jobStore, KeyOf(jobStore, path[1]))
    IN  CASE handler = "getAnalysisStatus" ->
               [status |-> IF found.outcome = "ok" THEN 200 ELSE 404, body |-> found.job]
          [] handler \in {"exportJson", "exportCsv", "exportPdf"} ->
               IF found.outcome # "ok" THEN [status |-> 404, body |-> Undefined]
               ELSE IF Val(found.job).status # "completed" \/ ~Has(Val(found.job).result)
                    THEN [status |-> 400, body |-> Undefined]
                    ELSE [status |-> 200, body |-> found.job]
          [] handler = "getAnalysisHistory" ->
               [status |-> 200,
                body |-> Some([count |-> Len(getUserHistory(jobStore, userId)),
                               analyses |-> getUserHistory(jobStore, userId)])]
          [] handler = "getAnalytics" ->
               [status |-> 200, body |-> Some(Analytics(getUserHistory(jobStore, userId)))]
          [] OTHER -> [status |-> 404, body |-> Undefined]

\* A GET request of an authenticated principal, from its dispatch to its
\* response.
Get(userId, path) ==
    /\ LET route == RouteOf("GET", path)
           response == Respond(route.handler, userId, path)
       IN  reply' = [op |-> "GET", userId |-> userId, path |-> path,
                     handler |-> route.handler, status |-> response.status,
                     body |-> response.body]
    /\ UNCHANGED <<jobStore, analysisQueue, proc, returned, now, llmEnabled, filterCall,
                   quotaExceeded, lastQuotaErrorTime>>

\* The paths requested: the fixed ones, those of the jobs and of an id that
\* no job has, and two that no route was written for.
GetPaths ==
    { <<"analytics">>, <<"history", "list">>, <<"history">>, <<"analytics", "list">> }
      \cup { <<JobIdText(j)>> : j \in 1..(MaxShort + 1) }
      \cup { <<JobIdText(1), "export", format>> : format \in {"json", "csv", "pdf"} }

InitRoutes == InitStores(0..MaxShort)

NextRoutes == \E userId \in HistoryUsers, path \in GetPaths : Get(userId, path)

SpecRoutes == InitRoutes /\ [][NextRoutes]_vars

---------------------------------------------------------------------------
(* Two jobs started by one batch request and running at the same time:     *)
(* the steps of their pipelines interleave in any order.  (Immediate       *)
(* strategy; the two calls of the batch drew different ids.)               *)

NextConcurrent ==
    \/ Tick
    \/ \E user \in Users : StartBatchAnalysis(user, Repositories(2), <<1, 2>>)
    \/ \E jobId \in DOMAIN proc : ImmediateProcess(jobId)
    \/ \E jobId \in DOMAIN proc, files \in FetchedFiles : FetchReturns(jobId, files)
    \/ \E jobId \in DOMAIN proc, error \in FetchErrors : FetchThrows(jobId, error)
    \/ \E jobId \in DOMAIN proc, error \in DetectionErrors : AnalyzeThrows(jobId, error)
    \/ \E jobId \in DOMAIN proc :
         \E secOutcomes \in OutcomeSeqs(Len(Detected(proc[jobId].files, "security"))),
            bpOutcomes \in OutcomeSeqs(Len(Detected(proc[jobId].files, "bestPractices"))) :
              AnalyzeReturns(jobId, secOutcomes, bpOutcomes)
    \/ \E jobId \in DOMAIN proc : ProcessCompletes(jobId)
    \/ \E jobId \in DOMAIN proc : ImmediateCatch(jobId)

SpecConcurrent == Init /\ [][NextConcurrent]_vars

---------------------------------------------------------------------------
(* One call of the confidence filter followed request by request: the     *)
(* loop of analyzeSecurityIssues / analyzeBestPractices over the batches, *)
(* with every chat.completions.create call of a batch in flight until it  *)
(* returns.                                                                *)

\* the longest list of findings whose requests are followed one by one
MaxRequests == 11

\* The lengths tried: the short ones, one batch, two batches, and one more
\* than each.
RequestCounts ==
    (0..MaxShort) \cup {BatchSize, BatchSize + 1, 2 * BatchSize, MaxRequests}

\* issuesToAnalyze.slice(i, i + 5), as the indices (from 1) of its findings
BatchAt(i, n) == (i + 1)..Min(i + BatchSize, n)

\* The filter is called: it returns its input at once when it is disabled or
\* the input is empty, and otherwise issues the requests of the first batch
\* (batch.map calls validate... on each finding, and each of these runs up
\* to its await of chat.completions.create) and awaits Promise.all.
FilterCallBegins(op, issues, outcomes) ==
    /\ reply = NoReply
    /\ filterCall = NoCall
    /\ IF ~llmEnabled \/ issues = <<>>
       THEN /\ reply' = FilterReply(op, issues, outcomes, issues, 0)
            /\ UNCHANGED filterCall
       ELSE LET n == Min(AnalyzeLimit, Len(issues))
            IN  /\ filterCall' = [op |-> op, issues |-> issues, outcomes |-> outcomes,
                                  n |-> n, i |-> 0, issued |-> BatchAt(0, n),
                                  done |-> {}, validated |-> <<>>]
                /\ UNCHANGED reply
    /\ UNCHANGED <<jobStore, analysisQueue, proc, returned, now, llmEnabled,
                   quotaExceeded, lastQuotaErrorTime>>

\* One chat.completions.create call returns or throws, and the validate...
\* call that made it resolves (its catch block notes a quota error).
RequestReturns(idx) ==
    /\ filterCall # NoCall
    /\ idx \in filterCall.issued \ filterCall.done
    /\ filterCall' = [filterCall EXCEPT !.done = @ \cup {idx}]
    /\ QuotaSeen(filterCall.outcomes[idx].kind = "quota")
    /\ UNCHANGED <<jobStore, analysisQueue, proc, returned, reply, now, llmEnabled>>

\* What the loop does with the results of the batch at i: a null result
\* throws and the catch block returns the input; otherwise the findings kept
\* are pushed, and the next batch is issued or the call returns.
AfterBatch(call) ==
    LET first == call.i + 1
        last == Min(call.i + BatchSize, call.n)
        batch == SubSeq(call.issues, first, last)
        results == SubSeq(call.outcomes, first, last)
        next == call.i + BatchSize
        requests == Cardinality(call.issued)
    IN  IF \E k \in first..last : call.outcomes[k].kind = "null"
        THEN /\ reply' = FilterReply(call.op, call.issues, call.outcomes,
                                     call.issues, requests)
             /\ filterCall' = NoCall
        ELSE LET validated ==
                     call.validated \o
                       (IF call.op = "analyzeSecurityIssues"
                        THEN ValidatedSecurity(batch, results, 1)
                        ELSE ValidatedBestPractices(batch, results, 1))
             IN  IF next < call.n
                 THEN /\ filterCall' = [call EXCEPT
                                          !.i = next,
                                          !.issued = @ \cup BatchAt(next, call.n),
                                          !.validated = validated]
                      /\ UNCHANGED reply
                 ELSE /\ reply' = FilterReply(call.op, call.issues, call.outcomes,
                                      validated \o SubSeq(call.issues, call.n + 1,
                                                          Len(call.issues)),
                                      requests)
                      /\ filterCall' = NoCall

\* a loop that goes on as soon as one request of the batch has returned
MutBatchReturns ==
    /\ filterCall # NoCall
    /\ BatchAt(filterCall.i, filterCall.n) \cap filterCall.done # {}
    /\ AfterBatch(filterCall)
    /\ UNCHANGED <<jobStore, analysisQueue, proc, returned, now, llmEnabled,
                   quotaExceeded, lastQuotaErrorTime>>

\* await Promise.all(batch.map(...)) resolves, which it does when every
\* request of the batch has returned (validate... never rejects), and the
\* loop goes on.
BatchReturns ==
    /\ filterCall # NoCall
    /\ BatchAt(filterCall.i, filterCall.n) \subseteq filterCall.done
    /\ AfterBatch(filterCall)
    /\ UNCHANGED <<jobStore, analysisQueue, proc, returned, now, llmEnabled,
                   quotaExceeded, lastQuotaErrorTime>>

\* The outcomes tried for the n requests of one call.
RequestOutcomeSeqs(n) ==
    IF n <= MaxShort THEN [1..n -> FilterOutcomes]
    ELSE { SubSeq(outcomes, 1, n) : outcomes \in FilterOutcomeSeqs(MaxRequests) }

NextRequests ==
    \/ \E n \in RequestCounts : \E outcomes \in RequestOutcomeSeqs(n) :
         FilterCallBegins("analyzeSecurityIssues", SecurityIssuesOf("src/a.ts", n),
                          outcomes)
    \/ \E n \in RequestCounts : \E outcomes \in RequestOutcomeSeqs(n) :
         FilterCallBegins("analyzeBestPractices", BestPracticeIssuesOf("src/a.ts", n),
                          outcomes)
    \/ \E idx \in 1..MaxRequests : RequestReturns(idx)
    \/ BatchReturns

SpecRequests == Init /\ [][NextRequests]_vars

---------------------------------------------------------------------------
(* Properties of the job life cycle *)

Terminal(job) == job.status \in {"completed", "failed"}
Active(job) == job.status \in {"pending", "processing"}

StatusEdges ==
    { <<"pending", "processing">>, <<"processing", "completed">>,
      <<"processing", "failed">> }

C2_TerminalRecordFrozen ==
    [][\A j \in DOMAIN jobStore :
          Terminal(jobStore[j]) => jobStore'[j] = jobStore[j]]_vars

C6_IssueCountMatchesFindings ==
    \A j \in DOMAIN jobStore :
        jobStore[j].status = "completed" =>
            LET result == Val(jobStore[j].result)
            IN  Len(result.findings.security) + Len(result.findings.bestPractices)
                  = result.metrics.codeQuality.issues

\* A completed job whose filter ran and dropped a finding the detector emitted.
C6_Witness ==
    \E j \in DOMAIN jobStore :
        /\ jobStore[j].status = "completed"
        /\ llmEnabled
        /\ LET result == Val(jobStore[j].result)
           IN  /\ Len(result.findings.security)
                    < Len(Detected(proc[j].files, "security"))
               /\ Len(result.findings.bestPractices) > 0

\* C7: startAnalysis stores the pending record (progress 0) before it
\* dispatches the work; under the immediate strategy the job is still pending
\* when startAnalysis returns; and getJobStatus succeeds on every id that
\* startAnalysis has returned.
C7_PendingStoredBeforeDispatch ==
    /\ \A j \in DOMAIN proc :
          /\ j \in DOMAIN jobStore
          /\ proc[j].pc \in {"adding", "queued", "scheduled"} =>
                jobStore[j].status = "pending" /\ jobStore[j].progress = 0
    /\ ( /\ reply.op = "startAnalysis"
         /\ reply.outcome = "ok"
         /\ proc[reply.jobId].strategy = "immediate" )
          => /\ jobStore[reply.jobId].status = "pending"
             /\ proc[reply.jobId].pc = "scheduled"
    /\ \A j \in returned : getJobStatus(jobStore, j).outcome = "ok"

C7_Witness ==
    /\ reply.op = "startAnalysis"
    /\ reply.outcome = "ok"
    /\ proc[reply.jobId].strategy = "immediate"
    /\ reply.jobId \in returned

\* C8: getJobStatus on an id that is not in the job store fails with NotFound
\* and leaves the store unchanged; on an id in the store it returns that
\* job's record.
C8_GetJobStatus ==
    /\ [](reply.op = "getJobStatus" =>
            IF reply.jobId \in DOMAIN jobStore
            THEN reply.outcome = "ok" /\ reply.job = Some(jobStore[reply.jobId])
            ELSE reply.outcome = "NotFound" /\ reply.job = Undefined)
    /\ [][reply'.op = "getJobStatus" => jobStore' = jobStore]_vars

C8_Witness ==
    /\ reply.op = "getJobStatus"
    /\ reply.outcome = "NotFound"
    /\ jobStore # <<>>

C10_FailedSubmissionFailsJob ==
    \A j \in DOMAIN proc :
        proc[j].pc = "rejected" => jobStore[j].status = "failed"

\* A job is dispatched once its payload is in the queue or its setImmediate
\* callback is registered.
Dispatched(j) == j \in DOMAIN proc /\ proc[j].pc \in {"queued", "scheduled"}

\* C11 (as claimed): every job that has been dispatched eventually reaches
\* status completed or failed, also when a call to the content fetcher or to
\* the confidence filter never responds.
C11_DispatchedJobsTerminate ==
    \A j \in JobIds :
        Dispatched(j) ~> (j \in DOMAIN jobStore /\ Terminal(jobStore[j]))

\* The selected files whose content request ended OK with base64 content.
RECURSIVE OkFiles(_, _, _)
OkFiles(selected, responses, i) ==
    IF i > Len(responses) THEN <<>>
    ELSE (IF responses[i] = "ok" THEN <<selected[i]>> ELSE <<>>)
         \o OkFiles(selected, responses, i + 1)

FetchFailed(j) ==
    \E i \in 1..Len(proc[j].responses) : proc[j].responses[i] \in {"notOk", "throws"}

\* C12: a content request that throws or is answered not OK never fails the
\* job: the file is skipped; the loop goes on to every remaining selected
\* file; the files analysed are exactly those whose request succeeded; and
\* the job's error stays unset unless detection itself throws later.
C12_FileFetchFailureIsSkipped ==
    \A j \in DOMAIN proc :
        LET p == proc[j]
            job == jobStore[j]
        IN  /\ p.pc \in {"contents", "analyzing", "completing"} =>
                  /\ job.status = "processing"
                  /\ ~Has(job.error)
                  /\ p.files = OkFiles(p.selected, p.responses, 1)
            /\ p.pc \in {"analyzing", "completing"} =>
                  Len(p.responses) = Len(p.selected)
            /\ FetchFailed(j) /\ Has(job.error) =>
                  /\ Len(p.responses) = Len(p.selected)
                  /\ Val(p.error) \in DetectionErrors
            /\ job.status = "completed" =>
                  Val(job.result).summary.totalFiles
                      = Len(OkFiles(p.selected, p.responses, 1))

\* A job completed without error after the request for its first file threw
\* and the request for its second file succeeded.
C12_Witness ==
    \E j \in DOMAIN proc :
        /\ jobStore[j].status = "completed"
        /\ ~Has(jobStore[j].error)
        /\ proc[j].responses = <<"throws", "ok">>
        /\ Val(jobStore[j].result).summary.totalFiles = 1

---------------------------------------------------------------------------
(* Properties of the confidence filter *)

FilterOps == {"analyzeSecurityIssues", "analyzeBestPractices", "filterSecurityByFile"}
FilterCallOps == {"analyzeSecurityIssues", "analyzeBestPractices"}

SamePlace(a, b) == a.file = b.file /\ a.line = b.line

\* C13: the filter never adds findings: its output is no longer than its
\* input, every output finding has the file and line of an input finding,
\* and no input finding comes out twice, whatever the service answers and
\* whichever calls fail.
C13_FilterNeverAdds ==
    reply.op \in FilterOps =>
        /\ Len(reply.output) <= Len(reply.issues)
        /\ \A k \in 1..Len(reply.output) :
              \E i \in 1..Len(reply.issues) : SamePlace(reply.output[k], reply.issues[i])
        /\ \A k, l \in 1..Len(reply.output) :
              SamePlace(reply.output[k], reply.output[l]) => k = l

\* A call that met a quota error, dropped something and kept something.
C13_Witness ==
    /\ reply.op \in FilterCallOps
    /\ reply.enabled
    /\ reply.output # <<>>
    /\ Len(reply.output) < Len(reply.issues)
    /\ \E i \in 1..Len(reply.issues) : reply.outcomes[i].kind = "quota"

\* The places of the output that hold input finding i.
PlacesOf(i) ==
    {k \in 1..Len(reply.output) : SamePlace(reply.output[k], reply.issues[i])}

\* The answer to a validation call accepts the finding: isValidIssue is true
\* and the confidence is above 0.6.  When the call fails the answer is the
\* one the code puts in its place; the JSON text null accepts nothing.
Accepts(outcome) ==
    /\ outcome.kind # "null"
    /\ validateIssue(outcome).isValidIssue
    /\ validateIssue(outcome).confidence > ConfidenceThreshold

\* What a kept finding looks like: the improved values where the answer
\* provides them, everything else as in the input.
KeptAs(op, issue, outcome) ==
    LET r == validateIssue(outcome)
        base == [issue EXCEPT
                   !.message = IF r.improvedMessage # "" THEN r.improvedMessage ELSE @,
                   !.recommendation = IF r.improvedRecommendation # ""
                                      THEN r.improvedRecommendation ELSE @]
    IN  IF op = "analyzeSecurityIssues"
        THEN [base EXCEPT !.severity = IF r.severity # "" THEN r.severity ELSE @]
        ELSE base

KeepRuleOn(indices) ==
    \A i \in indices :
        /\ PlacesOf(i) # {} <=> Accepts(reply.outcomes[i])
        /\ \A k \in PlacesOf(i) :
              reply.output[k] = KeptAs(reply.op, reply.issues[i], reply.outcomes[i])

\* C14 (as claimed): of the findings sent to the service, exactly those whose
\* answer has isValidIssue true and confidence above 0.6 are in the output,
\* each with the improved message, recommendation and severity where
\* provided and otherwise unchanged, its file, line and snippet as they were.
C14_KeepRule ==
    reply.op \in FilterCallOps /\ reply.enabled => KeepRuleOn(1..reply.requests)

\* Of the findings of one category, only the first 50 go to the service and
\* the others come out as they went in, behind the first 50.
FirstFiftyOnly(ops) ==
    reply.op \in ops /\ reply.enabled =>
        /\ reply.requests <= AnalyzeLimit
        /\ \A i \in (AnalyzeLimit + 1)..Len(reply.issues) :
              /\ PlacesOf(i) # {}
              /\ \A k \in PlacesOf(i) : reply.output[k] = reply.issues[i]
              /\ \A h \in 1..AnalyzeLimit : \A k \in PlacesOf(i), l \in PlacesOf(h) : l < k

\* C15 (as claimed): within one job only the first 50 findings of a category
\* are sent to the confidence filter, and every finding of the category
\* beyond the first 50 is in the result unfiltered and unmodified, after the
\* kept ones.
C15_FirstFiftyOfJob == FirstFiftyOnly(FilterOps)

\* C15 (amended): within one call of the filter, that is for the findings of
\* one category in one file, only the first 50 are sent to the service, and
\* every finding of the call beyond the first 50 is in its output unfiltered
\* and unmodified, after the kept ones.
C15_FirstFiftyOfCall == FirstFiftyOnly(FilterCallOps)

\* A call on more than 50 findings that dropped one of the first 50 and
\* returned the 51st although the answer drawn for it rejects it.
C15_Witness ==
    /\ reply.op = "analyzeBestPractices"
    /\ reply.enabled
    /\ Len(reply.issues) > AnalyzeLimit
    /\ Len(reply.output) < Len(reply.issues)
    /\ reply.outcomes[AnalyzeLimit + 1] =
          [kind |-> "json", result |-> NoImprovement(FALSE, 9)]
    /\ reply.output[Len(reply.output) - (Len(reply.issues) - AnalyzeLimit) + 1]
          = reply.issues[AnalyzeLimit + 1]

\* The validation calls that gave no usable answer: an error of the service
\* or of the network, unparsable content, no content, a quota error, null.
FailedKinds == {"error", "empty", "quota", "null"}

\* C16 (as claimed): a finding whose validation call fails, with an error
\* other than a quota error or with an empty or unparsable response, is in
\* the output with message, recommendation and severity as they were; no
\* failed validation call makes its finding disappear.
C16_ErrorKeepsFinding ==
    reply.op \in FilterCallOps /\ reply.enabled =>
        \A i \in 1..reply.requests :
            reply.outcomes[i].kind \in FailedKinds =>
                /\ PlacesOf(i) # {}
                /\ \A k \in PlacesOf(i) : reply.output[k] = reply.issues[i]

---------------------------------------------------------------------------
(* Properties of the quota circuit breaker *)

\* A quota error has been observed and its cooldown has not yet elapsed.
BreakerOpen == quotaExceeded /\ now < lastQuotaErrorTime + CooldownTicks

\* A quota error has been observed and its cooldown has elapsed.
CooldownOver == quotaExceeded /\ now >= lastQuotaErrorTime + CooldownTicks

\* C17 (as claimed): once a quota error has been observed, every call of the
\* filter made before the cooldown has elapsed returns its input unmodified
\* and sends no request to the service.
C17_OpenBreakerSendsNothing ==
    [][BreakerOpen /\ reply'.op \in FilterCallOps =>
          /\ reply'.requests = 0
          /\ reply'.output = reply'.issues]_vars

\* C18 (as claimed): the breaker stays open for the hour of the cooldown and
\* then closes: a call of the filter made once the cooldown has elapsed
\* finds the quota-exceeded state cleared (it is set again only by a quota
\* error of that very call) and sends its validation requests.
C18_BreakerClosesAfterCooldown ==
    /\ [][BreakerOpen /\ now' < lastQuotaErrorTime + CooldownTicks
            => quotaExceeded']_vars
    /\ [][( /\ CooldownOver
             /\ reply'.op \in FilterCallOps
             /\ reply'.enabled
             /\ reply'.issues # <<>> ) =>
            /\ ~quotaExceeded' \/ lastQuotaErrorTime' = now
            /\ reply'.requests > 0]_vars

---------------------------------------------------------------------------
(* Properties of the start endpoints *)

\* C19: a batch start with more than 10 repositories is rejected and creates
\* no job; a batch start with n repositories, 1 <= n <= 10, creates n new job
\* records and returns their n job ids, all different, the i-th id being
\* that of the pending job of the i-th repository of the request.
C19_BatchStart ==
    [][reply'.op = "startBatchAnalysis" =>
          LET repositories == reply'.repositories
              n == Len(repositories)
              jobIds == reply'.jobIds
              created == DOMAIN jobStore' \ DOMAIN jobStore
          IN  /\ n > MaxBatch => reply'.outcome = "error" /\ jobStore' = jobStore
              /\ n \in 1..MaxBatch =>
                    /\ reply'.outcome = "ok"
                    /\ Len(jobIds) = n
                    /\ Cardinality(created) = n
                    /\ {jobIds[i] : i \in 1..n} = created
                    /\ \A i \in 1..n :
                          /\ jobStore'[jobIds[i]].repository.owner = repositories[i].owner
                          /\ jobStore'[jobIds[i]].repository.repo = repositories[i].repo
                          /\ jobStore'[jobIds[i]].status = "pending"
                    /\ \A j \in DOMAIN jobStore : jobStore'[j] = jobStore[j]]_vars

\* A batch of exactly 10 repositories has been accepted.
C19_Witness ==
    /\ reply.op = "startBatchAnalysis"
    /\ reply.outcome = "ok"
    /\ Len(reply.jobIds) = MaxBatch
    /\ Cardinality(DOMAIN jobStore) = MaxBatch
    /\ jobStore[reply.jobIds[MaxBatch]].repository.repo = RepoName(MaxBatch)

\* C20 (as claimed): a request with owner or repo missing is rejected before
\* any job is created, for a single start and for each entry of a batch
\* start: the job store never holds a record made from a malformed entry.
C20_MalformedCreatesNoJob ==
    \A j \in DOMAIN jobStore :
        /\ jobStore[j].repository.owner # Missing
        /\ jobStore[j].repository.repo # Missing

---------------------------------------------------------------------------
(* Properties of the history list *)

\* The completed jobs of a principal in the job store.
CompletedOf(userId) ==
    { j \in DOMAIN jobStore :
        jobStore[j].userId = userId /\ jobStore[j].status = "completed" }

\* C21: the history list of a principal holds only completed jobs that this
\* principal started, each at most once and as the store has it, at most 50
\* of them, the latest completed ones when there are more, latest first.
C21_HistoryList ==
    reply.op = "getAnalysisHistory" =>
        LET h == reply.analyses
            listed == {h[i].id : i \in 1..Len(h)}
        IN  /\ reply.count = Len(h)
            /\ Len(h) = Min(HistoryLimit, Cardinality(CompletedOf(reply.userId)))
            /\ Cardinality(listed) = Len(h)
            /\ listed \subseteq CompletedOf(reply.userId)
            /\ \A i \in 1..Len(h) : h[i] = jobStore[h[i].id]
            /\ \A i \in 1..Len(h), k \in 1..Len(h) :
                  i < k => Val(h[i].completedAt) >= Val(h[k].completedAt)
            /\ \A j \in CompletedOf(reply.userId) \ listed : \A i \in 1..Len(h) :
                  Val(h[i].completedAt) >= Val(jobStore[j].completedAt)

\* A history cut at 50 entries, taken from a store that also holds a job of
\* the other principal and whose jobs did not complete in the order in which
\* the list gives them.
C21_Witness ==
    /\ reply.op = "getAnalysisHistory"
    /\ Len(reply.analyses) = HistoryLimit
    /\ Cardinality(CompletedOf(reply.userId)) > HistoryLimit
    /\ \E j \in DOMAIN jobStore : jobStore[j].userId # reply.userId
    /\ reply.analyses[1].id > reply.analyses[HistoryLimit].id
    /\ Val(reply.analyses[1].completedAt) > Val(reply.analyses[HistoryLimit].completedAt)

---------------------------------------------------------------------------
(* Properties of the notifications *)

\* The POST of sendWebhookNotification for job j has just been made.
Notified(j) ==
    /\ reply.op = "sendWebhookNotification"
    /\ reply.payload.jobId = j
    /\ reply.payload.repository = jobStore[j].repository
    /\ reply.payload.status = jobStore[j].status

\* C22 (as claimed): every job that reaches status completed or failed is
\* followed by a notification POST that carries its id, repository and
\* status (with a notification endpoint configured).
C22_TerminalJobIsNotified ==
    \A j \in JobIds :
        (j \in DOMAIN jobStore /\ Terminal(jobStore[j])) ~> Notified(j)

---------------------------------------------------------------------------
(* Properties of the two execution strategies *)

\* The responses the pipeline of job j got, and what process does with them.
UpdatesOfProcess(j) ==
    ProcessUpdates(
        IF Has(proc[j].error) /\ Val(proc[j].error) \in FetchErrors
        THEN proc[j].error ELSE Undefined,
        IF Has(proc[j].error) /\ Val(proc[j].error) \notin FetchErrors
        THEN proc[j].error ELSE Undefined,
        proc[j].analysisResult, llmEnabled)

\* C23 (as claimed): for the same payload and the same responses, the job
\* record gets the same sequence of updates and ends in the same state under
\* the queued and under the immediate strategy: under either one, the
\* updates of a finished job are those of process for the responses it got,
\* and the record ends as these updates leave it.
C23_StrategyAgnostic ==
    \A j \in DOMAIN proc :
        proc[j].pc = "done" =>
            /\ proc[j].updates = UpdatesOfProcess(j)
            /\ Logged(jobStore[j]) =
                  AssignAll([NewJob(j, jobStore[j].userId,
                                    jobStore[j].repository.owner,
                                    jobStore[j].repository.repo)
                               EXCEPT !.createdAt = jobStore[j].createdAt],
                            UpdatesOfProcess(j))

---------------------------------------------------------------------------
(* Properties of the job ids *)

\* C24 (as claimed): job ids are never reused.  No start request changes or
\* replaces a record that the store already holds, and the calls of one
\* batch start, which all read the same clock value, create their records
\* under ids that differ from one another.
C24_JobIdsNeverReused ==
    [][/\ \A j \in DOMAIN jobStore :
             j \in DOMAIN jobStore' /\ jobStore'[j] = jobStore[j]
       /\ (reply'.op = "startBatchAnalysis" /\ reply'.outcome = "ok") =>
             \A i \in 1..Len(reply'.jobIds), k \in 1..Len(reply'.jobIds) :
                 i # k => reply'.jobIds[i] # reply'.jobIds[k]]_vars

---------------------------------------------------------------------------
(* Properties of the file selection *)

\* The positions in tree of the files of one kind.
ConfigEntries(tree) ==
    {i \in 1..Len(tree) : tree[i].type = "blob" /\ isConfigFile(tree[i].path)}
SourceEntries(tree) ==
    {i \in 1..Len(tree) :
        /\ tree[i].type = "blob"
        /\ isCodeFile(tree[i].path)
        /\ ~isConfigFile(tree[i].path)}

---------------------------------------------------------------------------
(* Properties of the routes *)

\* C26 (as claimed): GET /analyze/analytics is dispatched to getAnalytics
\* and answers the statistics of the calling principal; it is never
\* dispatched to getAnalysisStatus with jobId = "analytics".
C26_AnalyticsRoute ==
    (reply.op = "GET" /\ reply.path = <<"analytics">>) =>
        /\ reply.handler = "getAnalytics"
        /\ reply.status = 200
        /\ reply.body = Some(Analytics(getUserHistory(jobStore, reply.userId)))

---------------------------------------------------------------------------
(* Properties of concurrent jobs *)

\* A step of the pipeline of job j: its position or its locals change.
PipelineStep(j) == j \in DOMAIN proc /\ j \in DOMAIN proc' /\ proc'[j] # proc[j]

\* C27: whatever the interleaving of the pipelines of concurrent jobs, a
\* step of the pipeline of one job leaves the records of all other jobs as
\* they are, and leaves the id, userId, repository and createdAt of its own
\* job as they are.
C27_UpdatesTouchOwnRecordOnly ==
    [][\A j \in DOMAIN jobStore :
          PipelineStep(j) =>
              /\ \A k \in DOMAIN jobStore \ {j} :
                    k \in DOMAIN jobStore' /\ jobStore'[k] = jobStore[k]
              /\ j \in DOMAIN jobStore'
              /\ jobStore'[j].id = jobStore[j].id
              /\ jobStore'[j].userId = jobStore[j].userId
              /\ jobStore'[j].repository = jobStore[j].repository
              /\ jobStore'[j].createdAt = jobStore[j].createdAt]_vars

\* Two jobs of different repositories, one completed and one failed, where
\* the failed one ran from its start to its end while the other one was
\* processing.
C27_Witness ==
    \E j \in DOMAIN jobStore, k \in DOMAIN jobStore :
        /\ j # k
        /\ jobStore[j].status = "completed"
        /\ jobStore[k].status = "failed"
        /\ jobStore[j].repository # jobStore[k].repository
        /\ proc[j].pc = "done" /\ proc[k].pc = "done"
        /\ Val(jobStore[j].startedAt) < Val(jobStore[k].startedAt)
        /\ Val(jobStore[k].completedAt) <= Val(jobStore[j].completedAt)
        /\ Val(jobStore[j].result).summary.totalFiles > 0

---------------------------------------------------------------------------
(* Batches of the confidence filter *)

\* the requests of the call in progress that have not returned
Outstanding ==
    IF filterCall = NoCall THEN {} ELSE filterCall.issued \ filterCall.done

\* the batch (from 0) of the finding at an index (from 1)
BatchOf(idx) == (idx - 1) \div BatchSize

\* the requests a step issues
Issues(before, after) ==
    IF after = NoCall THEN {}
    ELSE IF before = NoCall THEN after.issued
    ELSE after.issued \ before.issued

\* C28: within one call of the filter the findings are validated in batches
\* of 5: a step that issues requests issues those of one whole batch, and
\* only when every request issued before has returned; so a request of a
\* later batch is never in flight with one of an earlier batch, and at most
\* 5 requests of the call are outstanding at any time.
C28_BatchesOfFive ==
    /\ [](/\ Cardinality(Outstanding) <= BatchSize
          /\ \A a \in Outstanding : \A b \in Outstanding : BatchOf(a) = BatchOf(b)
          /\ filterCall # NoCall =>
                \A a \in filterCall.issued : \A b \in filterCall.issued :
                    BatchOf(b) < BatchOf(a) => b \in filterCall.done)
    /\ [][Issues(filterCall, filterCall') # {} =>
             /\ Outstanding = {}
             /\ \E k \in 0..(filterCall'.n \div BatchSize) :
                   Issues(filterCall, filterCall') =
                       {idx \in 1..filterCall'.n : BatchOf(idx) = k}]_vars

\* the five requests of the second batch are in flight, after the five of
\* the first batch have returned and their findings were pushed
C28_Witness ==
    /\ filterCall # NoCall
    /\ Cardinality(filterCall.issued) = 2 * BatchSize
    /\ Cardinality(Outstanding) = BatchSize
    /\ filterCall.validated # <<>>

---------------------------------------------------------------------------
(* Progress values of the pipeline *)

\* the progress values of a list of updateJobStatus calls, in order
RECURSIVE ProgressValues(_)
ProgressValues(updates) ==
    IF updates = <<>> THEN <<>>
    ELSE (IF "progress" \in DOMAIN Head(updates) THEN <<Head(updates).progress>> ELSE <<>>)
         \o ProgressValues(Tail(updates))

\* the progress written after detection
DetectionProgress == IF llmEnabled THEN 95 ELSE 90

---------------------------------------------------------------------------
(* A repository of which no file content is obtained *)

\* fetchRepositoryFiles has returned for the job (it has not thrown one of
\* its errors, and process has gone on) and returned no file
FetchedNothing(j) ==
    /\ j \in DOMAIN proc
    /\ proc[j].pc \in {"analyzing", "completing", "done", "rethrown"}
    /\ ~(Has(proc[j].error) /\ Val(proc[j].error) \in FetchErrors)
    /\ proc[j].files = <<>>

\* the result of analysing nothing
EmptyResult(result) ==
    /\ result.summary.totalFiles = 0
    /\ result.summary.totalLines = 0
    /\ result.metrics.complexity.average = 0
    /\ result.metrics.complexity.max = 0
    /\ result.findings.security = <<>>
    /\ result.findings.bestPractices = <<>>
    /\ result.metrics.codeQuality.issues = 0
    /\ result.metrics.codeQuality.score = 100

\* C30: when the repository and tree fetches succeed and no file content is
\* obtained (no file of the tree is selected, or every content request
\* fails), the job never fails: when process is through with it the job is
\* completed, and its result has totalFiles 0, totalLines 0, complexity
\* average 0 and max 0, no findings, issue count 0 and quality score 100.
C30_NoContentCompletes ==
    \A j \in DOMAIN jobStore :
        FetchedNothing(j) =>
            /\ jobStore[j].status # "failed"
            /\ ~Has(jobStore[j].error)
            /\ proc[j].pc # "rethrown"
            /\ jobStore[j].progress >= 30
            /\ proc[j].pc = "done" => jobStore[j].status = "completed"
            /\ Has(proc[j].analysisResult) => EmptyResult(Val(proc[j].analysisResult))
            /\ jobStore[j].status = "completed" =>
                  /\ Has(jobStore[j].result)
                  /\ EmptyResult(Val(jobStore[j].result))

\* both files of the tree were requested, one request threw and the other
\* was answered with an error status, and the job has completed
C30_Witness ==
    \E j \in DOMAIN jobStore :
        /\ FetchedNothing(j)
        /\ proc[j].selected # <<>>
        /\ "throws" \in {proc[j].responses[i] : i \in DOMAIN proc[j].responses}
        /\ "notOk" \in {proc[j].responses[i] : i \in DOMAIN proc[j].responses}
        /\ proc[j].pc = "done"
        /\ jobStore[j].status = "completed"

====
